---- MODULE Spec2Model ----
(***************************************************************************)
(* Content index and search engine of vscode-search-in-file                *)
(* (class TextSearcher, src/unnamed/part_001), modelled as a state machine *)
(* over a small file system, an abstract clock and the JavaScript event    *)
(* loop (macrotasks interleave, microtask continuations run to completion).*)
(*                                                                         *)
(* Strings are sequences of one-character strings; positions handed to and *)
(* returned by the string operators are 0-based, as in JavaScript.         *)
(***************************************************************************)
EXTENDS Integers, Sequences, FiniteSets, TLC

(***************************************************************************)
(* Program constants, scaled.  The source has BATCH_SIZE 50,               *)
(* MAX_INDEX_SIZE 8000, MAX_FILE_SIZE 1 MB, and in milliseconds            *)
(* INDEX_CLEANUP_INTERVAL 300000, MAX_CACHE_AGE 7 days, 5 minutes and 2    *)
(* hours in ensureIndexIsUpdated, and 2000 in scheduleIncrementalUpdate.   *)
(* Here sizes are counted in units of MAX_FILE_SIZE and time in ticks of 5 *)
(* minutes, the 2 seconds of the timer being less than a tick; the order   *)
(* of the thresholds and the strictness of each comparison are kept.       *)
(***************************************************************************)
BATCH_SIZE == 2
MAX_INDEX_SIZE == 4
MAX_FILE_SIZE == 1
INDEX_CLEANUP_INTERVAL == 1
MAX_CACHE_AGE == 3
STALE_INCREMENTAL_AGE == 1
STALE_FULL_AGE == 2
SCHEDULE_DELAY == 0
MIN_QUERY_LENGTH == 2
CACHE_VERSION == "1.2.0"
EXCLUDED_EXTENSIONS == {".png", ".zip"}

(***************************************************************************)
(* Bounds of the model.                                                    *)
(***************************************************************************)
StartTime == 4
MaxTicks == 3
MaxCacheTicks == 1
MaxMtime == 2
MaxFsOps == 1
MaxCalls == 2
MaxTextLen == 4
MaxQueryLen == 3
MaxAborts == 1
MaxFails == 1
MaxRankLines == 2
MaxInputs == 2
MaxThrows == 1

NL == "\n"
CR == "\r"

(***************************************************************************)
(* String primitives of the JavaScript runtime.                            *)
(***************************************************************************)
Min(S) == CHOOSE x \in S : \A y \in S : x <= y
Max(S) == CHOOSE x \in S : \A y \in S : x >= y

\* s.substring(a, b) for 0 <= a <= b <= s.length
Substring(s, a, b) == SubSeq(s, a + 1, b)

\* q occurs in s at the 0-based offset i
OccursAt(s, q, i) ==
    /\ i >= 0
    /\ i + Len(q) <= Len(s)
    /\ SubSeq(s, i + 1, i + Len(q)) = q

\* s.indexOf(q, from): the least offset >= from at which q occurs, else -1
IndexOf(s, q, from) ==
    LET hits == {i \in from..(Len(s) - Len(q)) : OccursAt(s, q, i)}
    IN  IF hits = {} THEN -1 ELSE Min(hits)

\* s.lastIndexOf(q): the greatest offset at which q occurs, else -1
LastIndexOf(s, q) ==
    LET hits == {i \in 0..(Len(s) - Len(q)) : OccursAt(s, q, i)}
    IN  IF hits = {} THEN -1 ELSE Max(hits)

LowerChar(c) == IF c = "A" THEN "a" ELSE IF c = "B" THEN "b" ELSE c

\* U+0130, the capital I with a dot above, and U+0307, the combining dot
\* above: the one character whose lower case is two code units, "i" and the
\* combining dot
IDot == "I+dot"
DotAbove == "+dot"

\* the code units that toLowerCase puts for the code unit c
LowerOf(c) == IF c = IDot THEN <<"i", DotAbove>> ELSE <<LowerChar(c)>>

RECURSIVE ToLowerCase(_)
\* s.toLowerCase()
ToLowerCase(s) ==
    IF s = <<>> THEN <<>> ELSE LowerOf(Head(s)) \o ToLowerCase(Tail(s))

\* the character class \s
IsWhitespace(c) == c \in {" ", "\t", NL, CR}

RECURSIVE SplitFrom(_, _, _)
SplitFrom(s, i, cur) ==
    IF i > Len(s) THEN <<cur>>
    ELSE IF s[i] = NL THEN <<cur>> \o SplitFrom(s, i + 1, <<>>)
    ELSE SplitFrom(s, i + 1, Append(cur, s[i]))

\* s.split('\n')
SplitLines(s) == SplitFrom(s, 1, <<>>)

RECURSIVE JoinLines(_)
\* lines.join('\n')
JoinLines(lines) ==
    IF Len(lines) = 0 THEN <<>>
    ELSE IF Len(lines) = 1 THEN lines[1]
    ELSE lines[1] \o <<NL>> \o JoinLines(Tail(lines))

RECURSIVE NormalizeFrom(_, _)
NormalizeFrom(s, i) ==
    IF i > Len(s) THEN <<>>
    ELSE IF s[i] = CR /\ i < Len(s) /\ s[i + 1] = NL
         THEN <<NL>> \o NormalizeFrom(s, i + 2)
    ELSE IF s[i] = CR \/ s[i] = NL THEN <<NL>> \o NormalizeFrom(s, i + 1)
    ELSE <<s[i]>> \o NormalizeFrom(s, i + 1)

\* s.replace(/\r\n|\r|\n/g, '\n')
NormalizeNewlines(s) == NormalizeFrom(s, 1)

\* s.trim()
Trim(s) ==
    LET keep == {i \in 1..Len(s) : ~IsWhitespace(s[i])}
    IN  IF keep = {} THEN <<>> ELSE SubSeq(s, Min(keep), Max(keep))

\* s.trim().split(/\s+/).length
WordCount(s) ==
    LET t == Trim(s)
    IN  IF t = <<>> THEN 1
        ELSE Cardinality({i \in 1..Len(t) :
                 /\ ~IsWhitespace(t[i])
                 /\ (i = 1 \/ IsWhitespace(t[i - 1]))})

\* s.startsWith(p)
StartsWith(s, p) == OccursAt(s, p, 0)

(***************************************************************************)
(* The index: a JavaScript Map from path to entry, kept as the sequence of *)
(* its entries in insertion order.                                         *)
(***************************************************************************)
MapHas(m, p) == \E i \in 1..Len(m) : m[i].path = p

MapGet(m, p) == m[CHOOSE i \in 1..Len(m) : m[i].path = p]

\* Map.set: an existing key keeps its position, a new key goes last
MapSet(m, e) ==
    IF MapHas(m, e.path)
    THEN [i \in 1..Len(m) |-> IF m[i].path = e.path THEN e ELSE m[i]]
    ELSE Append(m, e)

RECURSIVE MapDelete(_, _)
MapDelete(m, p) ==
    IF Len(m) = 0 THEN <<>>
    ELSE IF m[1].path = p THEN Tail(m)
    ELSE <<m[1]>> \o MapDelete(Tail(m), p)

MapKeys(m) == {m[i].path : i \in 1..Len(m)}

\* the entry stored for a file read as `text` under a stat with mtime `mtime`
FileIndexEntry(path, text, mtime) ==
    [path |-> path, lines |-> SplitLines(text), lastModified |-> mtime]

(***************************************************************************)
(* Scoring.                                                                *)
(***************************************************************************)
calculateScore(query, lineText) ==
    LET lowerQuery == ToLowerCase(query)
        lowerLine  == ToLowerCase(lineText)
        queryIndex == IndexOf(lowerLine, lowerQuery, 0)
        position   == IF queryIndex = 0 THEN 30
                      ELSE IF queryIndex > 0 /\ IsWhitespace(lineText[queryIndex])
                           THEN 20 ELSE 0
        short      == IF WordCount(lineText) < 10 THEN 10 ELSE 0
        isComment  == \/ StartsWith(Trim(lineText), <<"/", "/">>)
                      \/ StartsWith(Trim(lineText), <<"/", "*">>)
    IN  50 + position + short + (IF isComment THEN 0 ELSE 15)

(***************************************************************************)
(* Matching.  A result keeps the fields of SearchResult the engine's       *)
(* callers read: the file, the label's line number, the range, the         *)
(* ' (multi-line)' tag of detail, and the score.                           *)
(***************************************************************************)
SearchResult(entry, lineNumber, startLine, startCol, endLine, endCol, multi, score) ==
    [path       |-> entry.path,
     lineNumber |-> lineNumber,
     startLine  |-> startLine,
     startCol   |-> startCol,
     endLine    |-> endLine,
     endCol     |-> endCol,
     multiLine  |-> multi,
     score      |-> score]

\* a loop that resumes after the end of a match and so skips overlaps
NextSearchIndexPastMatch(matchIndex, searchQuery) == matchIndex + Len(searchQuery)

\* after a match at matchIndex the scan resumes one character further
NextSearchIndex(matchIndex, searchQuery) == matchIndex + 1

RECURSIVE LineMatches(_, _, _, _, _, _, _)
\* the while loop of searchSingleLineInIndex over one line
LineMatches(entry, lineIndex, searchLine, originalQuery, searchQuery, matchIndex, results) ==
    IF matchIndex = -1 THEN results
    ELSE LineMatches(entry, lineIndex, searchLine, originalQuery, searchQuery,
            IndexOf(searchLine, searchQuery, NextSearchIndex(matchIndex, searchQuery)),
            Append(results,
                SearchResult(entry, lineIndex + 1,
                    lineIndex, matchIndex,
                    lineIndex, matchIndex + Len(originalQuery),
                    FALSE,
                    calculateScore(originalQuery, entry.lines[lineIndex + 1]))))

\* a line of a stored entry that is not a string: null in the stored JSON
CorruptLine == <<"?null">>

\* line.toLowerCase() and line.indexOf() throw a TypeError
LineThrows(line) == line = CorruptLine

RECURSIVE SingleLineFrom(_, _, _, _, _, _)
\* the for loop of searchSingleLineInIndex from line lineIndex on: a throw
\* leaves the loop, and `results` keeps the matches pushed before it
SingleLineFrom(entry, lineIndex, originalQuery, searchQuery, cs, results) ==
    IF lineIndex >= Len(entry.lines) THEN results
    ELSE IF LineThrows(entry.lines[lineIndex + 1]) THEN results
    ELSE LET line       == entry.lines[lineIndex + 1]
             searchLine == IF cs THEN line ELSE ToLowerCase(line)
         IN  SingleLineFrom(entry, lineIndex + 1, originalQuery, searchQuery, cs,
                 LineMatches(entry, lineIndex, searchLine, originalQuery, searchQuery,
                     IndexOf(searchLine, searchQuery, 0), results))

\* cs is this.caseSensitive at the time of the call
searchSingleLineInIndex(entry, originalQuery, searchQuery, cs, results) ==
    SingleLineFrom(entry, 0, originalQuery, searchQuery, cs, results)

\* a matcher that takes the start of a match for its end
MatchEndAtStart(matchIndex, normalizedSearchQuery) == matchIndex

\* matchIndex + normalizedSearchQuery.length
MatchEnd(matchIndex, normalizedSearchQuery) == matchIndex + Len(normalizedSearchQuery)

\* s.split('\n').length
LineCount(s) == Cardinality({i \in 1..Len(s) : s[i] = NL}) + 1

RECURSIVE MultiLineLoop(_, _, _, _, _, _, _)
MultiLineLoop(entry, fullText, searchText, originalQuery, normalizedSearchQuery, matchIndex, results) ==
    IF matchIndex = -1 THEN results
    ELSE LET beforeMatch       == Substring(fullText, 0, Min({matchIndex, Len(fullText)}))
             lineNumber        == LineCount(beforeMatch)
             lineStartIndex    == LastIndexOf(beforeMatch, <<NL>>) + 1
             columnIndex       == matchIndex - lineStartIndex
             matchEnd          == MatchEnd(matchIndex, normalizedSearchQuery)
             afterMatch        == Substring(fullText, 0, Min({matchEnd, Len(fullText)}))
             endLineNumber     == LineCount(afterMatch)
             endLineStartIndex == LastIndexOf(afterMatch, <<NL>>) + 1
             endColumnIndex    == matchEnd - endLineStartIndex
             lines             == SplitLines(fullText)
             contextLine       == IF lineNumber <= Len(lines) THEN lines[lineNumber] ELSE <<>>
         IN  MultiLineLoop(entry, fullText, searchText, originalQuery, normalizedSearchQuery,
                 IndexOf(searchText, normalizedSearchQuery, matchIndex + 1),
                 Append(results,
                     SearchResult(entry, lineNumber,
                         lineNumber - 1, columnIndex,
                         endLineNumber - 1, endColumnIndex,
                         TRUE,
                         calculateScore(originalQuery, contextLine) + 10)))

\* lines.join('\n'), which puts the empty string for a null element
JoinedText(lines) ==
    JoinLines([i \in 1..Len(lines) |->
                  IF lines[i] = CorruptLine THEN <<>> ELSE lines[i]])

searchMultiLineInIndex(entry, originalQuery, searchQuery, cs, results) ==
    LET fullText              == JoinedText(entry.lines)
        searchText            == IF cs THEN fullText ELSE ToLowerCase(fullText)
        normalizedSearchQuery == NormalizeNewlines(searchQuery)
    IN  MultiLineLoop(entry, fullText, searchText, originalQuery, normalizedSearchQuery,
            IndexOf(searchText, normalizedSearchQuery, 0), results)

\* query.includes('\n') || query.includes('\r\n') || query.includes('\r')
IsMultiLineQuery(query) == \E i \in 1..Len(query) : query[i] \in {NL, CR}

\* the body of the per-file try block of search
ScanEntry(entry, query, searchQuery, cs, results) ==
    IF IsMultiLineQuery(query)
    THEN searchMultiLineInIndex(entry, query, searchQuery, cs, results)
    ELSE searchSingleLineInIndex(entry, query, searchQuery, cs, results)

(***************************************************************************)
(* Ranking.                                                                *)
(***************************************************************************)
RECURSIVE InsertBeforeTies(_, _)
\* a sort that puts a match before the matches of equal score found earlier
InsertBeforeTies(sorted, r) ==
    IF Len(sorted) = 0 THEN <<r>>
    ELSE IF sorted[1].score > r.score
         THEN <<sorted[1]>> \o InsertBeforeTies(Tail(sorted), r)
         ELSE <<r>> \o sorted

\* a ranker that returns the sorted list as it is
NoGrouping(sorted) == sorted

\* Array.prototype.sort is stable; the comparator is b.score - a.score
\* (score is always defined, so the label comparison is never reached)
RECURSIVE InsertByScore(_, _)
InsertByScore(sorted, r) ==
    IF Len(sorted) = 0 THEN <<r>>
    ELSE IF sorted[1].score >= r.score
         THEN <<sorted[1]>> \o InsertByScore(Tail(sorted), r)
         ELSE <<r>> \o sorted

RECURSIVE SortByScore(_)
SortByScore(results) ==
    IF Len(results) = 0 THEN <<>>
    ELSE InsertByScore(SortByScore(SubSeq(results, 1, Len(results) - 1)),
                       results[Len(results)])

RECURSIVE GroupByFile(_)
\* groups in the order their first member appears, members in sorted order
GroupByFile(sorted) ==
    IF Len(sorted) = 0 THEN <<>>
    ELSE LET key == sorted[1].path
         IN  SelectSeq(sorted, LAMBDA r : r.path = key)
             \o GroupByFile(SelectSeq(sorted, LAMBDA r : r.path # key))

sortAndLimitResults(results) == GroupByFile(SortByScore(results))

(***************************************************************************)
(* The environment: files, workspace identity, persisted cache.            *)
(***************************************************************************)
\* the order in which vscode.workspace.findFiles lists the files
FileOrder == <<"a.ts", "b.ts", "c.PNG", "d.ts", "e.ts", "f.ts", "g.ts">>
Files == {FileOrder[i] : i \in 1..Len(FileOrder)}

\* path.extname(file.fsPath)
ExtName(f) == IF f = "c.PNG" THEN ".PNG" ELSE ".ts"

\* ext.toLowerCase()
LowerExt(ext) == IF ext = ".PNG" THEN ".png" ELSE ext

Searches == {"s1", "s2"}
Owners == Searches \cup {"timer"}

Workspaces == {"w1", "w2"}
ThisWorkspace == "w1"

\* md5(name:path).substring(0, 8)
calculateWorkspaceHash(ws) == IF ws = "w1" THEN "3f2a91c0" ELSE "b77e05d4"

Absent == [exists |-> FALSE, mtime |-> 0, size |-> 0, text |-> <<>>]

\* savedVer and savedBy are history: how many file changes had happened when
\* the snapshot was written, and which operation wrote it
NoCache ==
    [present |-> FALSE, version |-> "", workspaceHash |-> "",
     lastIndexTime |-> 0, fileIndex |-> <<>>, savedVer |-> 0, savedBy |-> "none"]

VARIABLES
    disk,              \* the workspace's files: exists, mtime, size, text
    now,               \* Date.now()
    store,             \* context.workspaceState[CACHE_KEY]
    used,              \* how many environment events of each kind have happened
    limit,             \* how many of each kind this specification allows
    fileIndex,         \* this.fileIndex
    isIndexing,        \* this.isIndexing
    lastIndexTime,     \* this.lastIndexTime
    indexingPromise,   \* this.indexingPromise: "null", or the promise's state
    lastCleanupTime,   \* this.lastCleanupTime
    disposed,          \* this.disposed
    caseSensitive,     \* this.caseSensitive
    searchState,       \* this.searchState
    scheduledTimeouts, \* this.scheduledTimeouts: the one refresh timer
    init,              \* the call of initialize()
    build,             \* the call of updateIndex() in flight, if any
    incr,              \* the calls of performIncrementalUpdate(), by caller
    searches,          \* the calls of search()
    waiters,           \* the continuations awaiting readyPromise / the build
    mq,                \* the microtask queue
    hist,              \* history of completed updates (ghost)
    px,                \* input and output of one direct call of a matcher
    modal,             \* the SearchModal that calls the engine, if one is open
    web,               \* the script of the modal's webview, and its messages
    sink               \* this.progressCallback and what its calls have done

envVars == <<disk, now, store, used, limit>>
engineVars == <<fileIndex, isIndexing, lastIndexTime, indexingPromise,
                lastCleanupTime, disposed, caseSensitive, searchState,
                scheduledTimeouts>>
taskVars == <<init, build, incr, searches, waiters, mq>>
vars == <<envVars, engineVars, taskVars, hist, px, modal, web, sink>>

(***************************************************************************)
(* Helpers shared by the handlers.                                         *)
(***************************************************************************)
\* findFiles(...) followed by the extension filter
TextFiles(d) ==
    SelectSeq(FileOrder, LAMBDA f :
        d[f].exists /\ LowerExt(ExtName(f)) \notin EXCLUDED_EXTENSIONS)

Range(seq) == {seq[i] : i \in 1..Len(seq)}

IdleBuild ==
    [pc |-> "idle", owner |-> "none", files |-> <<>>, i |-> 0,
     newIndex |-> <<>>, slots |-> <<>>, processed |-> {}, startVer |-> 0]

\* touched is history: has this call changed the index so far?
IdleIncr ==
    [pc |-> "idle", files |-> <<>>, k |-> 0, mtime |-> 0, size |-> 0,
     counted |-> FALSE, startVer |-> 0, touched |-> FALSE]

IdleSearch ==
    [pc |-> "idle", query |-> <<>>, aborted |-> FALSE, starter |-> FALSE,
     provider |-> FALSE, modeAtStart |-> TRUE,
     searchQuery |-> <<>>, fileEntries |-> <<>>, i |-> 0, results |-> <<>>,
     outcome |-> "none", result |-> <<>>, updatedAt |-> -1,
     abortAt |-> "none", dropped |-> 0]

NoHistory ==
    [fullStartVer |-> -1, fullEndVer |-> -1, fullContent |-> <<>>,
     prevStartVer |-> -1, prevContent |-> <<>>,
     incrDoneVer |-> -1, updateDoneVer |-> -1,
     loaded |-> "none", loadVer |-> -1, loadedIndex |-> <<>>,
     loadDisposed |-> FALSE, buildFailed |-> FALSE, timerRuns |-> 0]

\* the paths and line content of an index, without order and timestamps
ContentOf(idx) == {<<idx[i].path, idx[i].lines>> : i \in 1..Len(idx)}

\* the CachedIndex written by saveIndexToCache for index idx
CacheData(idx, time, by) ==
    [present |-> TRUE, version |-> CACHE_VERSION,
     workspaceHash |-> calculateWorkspaceHash(ThisWorkspace),
     lastIndexTime |-> time, fileIndex |-> idx, savedVer |-> used.fs,
     savedBy |-> by]

\* the synchronous head of updateIndex() called for `owner`
StartedBuild(owner) ==
    [IdleBuild EXCEPT !.pc = "enum", !.owner = owner, !.startVer = used.fs]

\* entries.sort((a, b) => a.lastModified - b.lastModified), stable
RECURSIVE InsertByAge(_, _)
InsertByAge(sorted, e) ==
    IF Len(sorted) = 0 THEN <<e>>
    ELSE IF sorted[1].lastModified <= e.lastModified
         THEN <<sorted[1]>> \o InsertByAge(Tail(sorted), e)
         ELSE <<e>> \o sorted

RECURSIVE SortByAge(_)
SortByAge(entries) ==
    IF Len(entries) = 0 THEN <<>>
    ELSE InsertByAge(SortByAge(SubSeq(entries, 1, Len(entries) - 1)),
                     entries[Len(entries)])

\* a cleanup without its cooldown
CleanupAlwaysDue(t, last) == TRUE

\* may cleanupOldEntries evict at time t?
CleanupDue(t, last) == ~(t - last < INDEX_CLEANUP_INTERVAL)

\* the index after cleanupOldEntries(index), when it is due
cleanupOldEntries(index) ==
    LET entries     == SortByAge(index)
        removeCount == (Len(entries) * 2) \div 10
        victims     == {entries[i].path : i \in 1..removeCount}
    IN  SelectSeq(index, LAMBDA e : e.path \notin victims)

(***************************************************************************)
(* initialize() and loadIndexFromCache().                                  *)
(***************************************************************************)
IdleInit == [pc |-> "start", cached |-> NoCache, k |-> 0, loadedCount |-> 0]

\* a load that does not compare the workspace fingerprint
CacheRejectedIgnoringHash(cached, t) ==
    \/ ~cached.present
    \/ cached.version # CACHE_VERSION
    \/ t - cached.lastIndexTime > MAX_CACHE_AGE

\* the first test of loadIndexFromCache: is the snapshot unusable as a whole?
CacheRejected(cached, t) ==
    \/ ~cached.present
    \/ cached.version # CACHE_VERSION
    \/ cached.workspaceHash # calculateWorkspaceHash(ThisWorkspace)
    \/ t - cached.lastIndexTime > MAX_CACHE_AGE

\* a load that is content with half of the entries
TooManyOutdatedHalf(loadedCount, total) == loadedCount * 10 < total * 5

\* loadedCount < Object.keys(cached.fileIndex).length * 0.8
TooManyOutdated(loadedCount, total) == loadedCount * 10 < total * 8

\* a load that keeps the entries whose file has changed
CachedEntryValidInverted(st, cachedFile) ==
    st.exists /\ st.mtime # cachedFile.lastModified

\* stat.mtime === cachedFile.lastModified
CachedEntryValid(st, cachedFile) == st.exists /\ st.mtime = cachedFile.lastModified

\* context.workspaceState of this run: which of its calls fail
GetThrows == "get" \in limit.broken
UpdateRejected == "update" \in limit.broken

\* the engine when nobody has called setProgressCallback. throwsLeft is the
\* environment: how many more calls of the callback will throw; threw and
\* calledAfterThrow are history
NewSink ==
    [progressCallback |-> "undefined", throwsLeft |-> 0, threw |-> FALSE,
     calledAfterThrow |-> FALSE]

\* a catch block that only logs
KeepCallback(callback) == callback

\* this.progressCallback = undefined
ClearCallback(callback) == "undefined"

\* what a handler's calls of reportProgress do, `reports` saying whether the
\* handler makes any: the callback is called unless the engine is disposed
\* or has no callback; if it throws, the catch block clears it, the
\* handler's later calls return at once, and the handler goes on
reportProgress(reports) ==
    IF ~reports \/ disposed \/ sink.progressCallback = "undefined"
    THEN sink' = sink
    ELSE \/ sink' = [sink EXCEPT !.calledAfterThrow = @ \/ sink.threw]
         \/ /\ sink.throwsLeft > 0
            /\ sink' = [sink EXCEPT !.calledAfterThrow = @ \/ sink.threw,
                                    !.threw = TRUE,
                                    !.throwsLeft = @ - 1,
                                    !.progressCallback = ClearCallback(@)]

\* resolving readyPromise: the searches awaiting it continue, in order
WakeReady(rest) ==
    /\ mq' = rest \o waiters.ready
    /\ waiters' = [waiters EXCEPT !.ready = <<>>]
    /\ searches' = [s \in Searches |->
                      IF searches[s].pc = "awaitReady"
                      THEN [searches[s] EXCEPT !.pc = "enter"]
                      ELSE searches[s]]

\* initialize() up to the first await of loadIndexFromCache or updateIndex
InitLoad ==
    /\ mq # <<>> /\ Head(mq) = "init" /\ init.pc = "start"
    /\ IF GetThrows \/ CacheRejected(store, now)
       THEN /\ init' = [init EXCEPT !.pc = "awaitBuild"]
            /\ build' = StartedBuild("init")
            /\ isIndexing' = TRUE
            /\ mq' = Tail(mq)
            /\ hist' = [hist EXCEPT !.loaded = "rejected", !.loadVer = used.fs,
                                    !.loadDisposed = disposed]
            /\ UNCHANGED fileIndex
       ELSE /\ fileIndex' = <<>>
            /\ init' = [pc |-> IF Len(store.fileIndex) = 0 THEN "loadEnd" ELSE "loadStat",
                        cached |-> store, k |-> 1, loadedCount |-> 0]
            /\ mq' = IF Len(store.fileIndex) = 0 THEN mq ELSE Tail(mq)
            /\ UNCHANGED <<build, isIndexing, hist>>
    /\ reportProgress(GetThrows \/ CacheRejected(store, now))
    /\ UNCHANGED <<envVars, lastIndexTime, indexingPromise, lastCleanupTime, disposed,
                   caseSensitive, searchState, scheduledTimeouts, incr, searches,
                   waiters, px, modal, web>>

\* the stat of one cached entry resolves
InitLoadStat ==
    /\ mq = <<>> /\ init.pc = "loadStat"
    /\ LET cachedFile == init.cached.fileIndex[init.k]
           valid      == CachedEntryValid(disk[cachedFile.path], cachedFile)
           last       == init.k = Len(init.cached.fileIndex)
       IN  /\ fileIndex' = IF valid THEN MapSet(fileIndex, cachedFile) ELSE fileIndex
           /\ init' = [init EXCEPT !.k = @ + 1,
                                   !.loadedCount = IF valid THEN @ + 1 ELSE @,
                                   !.pc = IF last THEN "loadEnd" ELSE "loadStat"]
           /\ mq' = IF last THEN <<"init">> ELSE mq
    /\ UNCHANGED <<envVars, isIndexing, lastIndexTime, indexingPromise, lastCleanupTime,
                   disposed, caseSensitive, searchState, scheduledTimeouts, build, incr,
                   searches, waiters, hist, px, modal, web, sink>>

\* the tail of loadIndexFromCache and what initialize() does with its answer
InitLoadEnd ==
    /\ mq # <<>> /\ Head(mq) = "init" /\ init.pc = "loadEnd"
    /\ lastIndexTime' = init.cached.lastIndexTime
    /\ IF TooManyOutdated(init.loadedCount, Len(init.cached.fileIndex))
       THEN /\ init' = [init EXCEPT !.pc = "awaitBuild"]
            /\ build' = StartedBuild("init")
            /\ isIndexing' = TRUE
            /\ mq' = Tail(mq)
            /\ hist' = [hist EXCEPT !.loaded = "rejected", !.loadVer = used.fs,
                                    !.loadedIndex = fileIndex,
                                    !.loadDisposed = disposed]
            /\ UNCHANGED <<scheduledTimeouts, searchState, searches, waiters>>
       ELSE /\ init' = [init EXCEPT !.pc = "done"]
            /\ scheduledTimeouts' =
                   IF disposed THEN scheduledTimeouts
                   ELSE [armed |-> TRUE, due |-> now + SCHEDULE_DELAY]
            /\ searchState' = [searchState EXCEPT !.isReady = TRUE]
            /\ WakeReady(Tail(mq))
            /\ hist' = [hist EXCEPT !.loaded = "accepted", !.loadVer = used.fs,
                                    !.loadedIndex = fileIndex,
                                    !.loadDisposed = disposed]
            /\ UNCHANGED <<build, isIndexing>>
    /\ reportProgress(TRUE)
    /\ UNCHANGED <<envVars, fileIndex, indexingPromise, lastCleanupTime, disposed,
                   caseSensitive, incr, px, modal, web>>

\* initialize() after its updateIndex() has settled
InitBuilt ==
    /\ mq # <<>> /\ Head(mq) = "init" /\ init.pc = "afterBuild"
    /\ init' = [init EXCEPT !.pc = "done"]
    /\ searchState' = [searchState EXCEPT !.isReady = TRUE]
    /\ WakeReady(Tail(mq))
    /\ reportProgress(TRUE)
    /\ UNCHANGED <<envVars, fileIndex, isIndexing, lastIndexTime, indexingPromise,
                   lastCleanupTime, disposed, caseSensitive, scheduledTimeouts, build,
                   incr, hist, px, modal, web>>

(***************************************************************************)
(* updateIndex() and indexBatch(): the full build.                         *)
(***************************************************************************)
\* a build that publishes as soon as one batch is in
AllBatchesDoneAfterFirst(i, n) == i >= BATCH_SIZE \/ ~(i < n)

\* the for loop of updateIndex has run out of batches
AllBatchesDone(i, n) == ~(i < n)

\* existing && existing.lastModified >= stat.mtime
ReusesEntry(index, f, st) ==
    MapHas(index, f) /\ MapGet(index, f).lastModified >= st.mtime

\* a size test that lets every file through
NeverTooLarge(st) == FALSE

\* stat.size > MAX_FILE_SIZE
TooLarge(st) == st.size > MAX_FILE_SIZE

\* an open that succeeds on a file that is gone
OpenNeverFails(file) == FALSE

\* vscode.workspace.fs.stat(file) rejects
StatFails(file) == ~file.exists

\* vscode.workspace.openTextDocument(file) rejects
OpenFails(file) == ~file.exists

AllSlotsDone(slots) == \A j \in 1..Len(slots) : slots[j].st = "done"

\* findFiles resolves
BuildEnumerated ==
    /\ mq = <<>> /\ build.pc = "enum"
    /\ build' = [build EXCEPT !.pc = "loop", !.files = TextFiles(disk), !.i = 0,
                              !.newIndex = <<>>]
    /\ mq' = <<"build">>
    /\ reportProgress(TRUE)
    /\ UNCHANGED <<envVars, engineVars, init, incr, searches, waiters, hist, px, modal, web>>

\* a catch block of initialize() that only logs
CatchLeavesReady(isReady) == isReady

\* the catch block of initialize(): this.searchState.isReady = true
CatchSetsReady(isReady) == TRUE

\* findFiles rejects: the finally block of updateIndex, and the promise
\* rejects; initialize() catches that and declares the engine ready, a
\* search that awaits the promise gets the error
BuildEnumFailed ==
    /\ mq = <<>> /\ build.pc = "enum"
    /\ used.fails < limit.fails
    /\ used' = [used EXCEPT !.fails = @ + 1]
    /\ isIndexing' = FALSE
    /\ build' = IdleBuild
    /\ hist' = [hist EXCEPT !.buildFailed = TRUE]
    /\ IF build.owner = "init"
       THEN /\ init' = [init EXCEPT !.pc = "done"]
            /\ searchState' = [searchState EXCEPT !.isReady = CatchSetsReady(@)]
            /\ WakeReady(<<>>)
            /\ UNCHANGED indexingPromise
       ELSE /\ indexingPromise' = "rejected"
            /\ mq' = waiters.build
            /\ waiters' = [waiters EXCEPT !.build = <<>>]
            /\ UNCHANGED <<init, searchState, searches>>
    /\ UNCHANGED <<disk, now, store, limit, fileIndex, lastIndexTime, lastCleanupTime,
                   disposed, caseSensitive, scheduledTimeouts, incr, px, modal, web, sink>>

\* the head of the batch loop: start the next batch, or publish and save
BuildLoop ==
    /\ mq # <<>> /\ Head(mq) = "build" /\ build.pc = "loop"
    /\ mq' = Tail(mq)
    /\ IF ~AllBatchesDone(build.i, Len(build.files))
       THEN LET size == Min({BATCH_SIZE, Len(build.files) - build.i})
            IN  /\ build' = [build EXCEPT !.pc = "batch",
                                !.slots = [j \in 1..size |->
                                    [file |-> build.files[build.i + j],
                                     st |-> "stat", mtime |-> 0, size |-> 0]]]
                /\ UNCHANGED <<fileIndex, lastIndexTime, store, hist>>
       ELSE /\ fileIndex' = build.newIndex
            /\ lastIndexTime' = now
            /\ store' = IF UpdateRejected THEN store
                        ELSE CacheData(build.newIndex, now, "updateIndex")
            /\ build' = [build EXCEPT !.pc = "save", !.slots = <<>>]
            /\ hist' = [hist EXCEPT
                          !.prevStartVer = hist.fullStartVer,
                          !.prevContent = hist.fullContent,
                          !.fullStartVer = build.startVer,
                          !.fullEndVer = used.fs,
                          !.fullContent = ContentOf(build.newIndex),
                          !.updateDoneVer = Max({@, build.startVer})]
    /\ UNCHANGED <<disk, now, used, limit, isIndexing, indexingPromise, lastCleanupTime,
                   disposed, caseSensitive, searchState, scheduledTimeouts, init, incr,
                   searches, waiters, px, modal, web, sink>>

\* one slot of the batch has finished: when it was the last, indexBatch resolves
AfterSlot(b) ==
    IF AllSlotsDone(b.slots)
    THEN /\ build' = [b EXCEPT !.pc = "batchEnd"]
         /\ mq' = <<"build">>
    ELSE /\ build' = b
         /\ mq' = mq

\* the stat of one file of the batch resolves
BuildStat(j) ==
    /\ mq = <<>> /\ build.pc = "batch"
    /\ j \in 1..Len(build.slots) /\ build.slots[j].st = "stat"
    /\ LET f    == build.slots[j].file
           st   == disk[f]
           done == [build EXCEPT !.slots[j].st = "done", !.processed = @ \cup {f}]
       IN  IF StatFails(st) THEN AfterSlot(done)
           ELSE IF ReusesEntry(fileIndex, f, st)
                THEN AfterSlot([done EXCEPT
                         !.newIndex = MapSet(@, MapGet(fileIndex, f))])
           ELSE IF TooLarge(st) THEN AfterSlot(done)
           ELSE AfterSlot([build EXCEPT !.slots[j].st = "read",
                                        !.slots[j].mtime = st.mtime,
                                        !.slots[j].size = st.size])
    /\ UNCHANGED <<envVars, engineVars, init, incr, searches, waiters, hist, px, modal, web, sink>>

\* openTextDocument of one file of the batch resolves
BuildRead(j) ==
    /\ mq = <<>> /\ build.pc = "batch"
    /\ j \in 1..Len(build.slots) /\ build.slots[j].st = "read"
    /\ LET f      == build.slots[j].file
           done   == [build EXCEPT !.slots[j].st = "done", !.processed = @ \cup {f}]
           stored == MapSet(build.newIndex,
                            FileIndexEntry(f, disk[f].text, build.slots[j].mtime))
       IN  IF OpenFails(disk[f])
           THEN AfterSlot(done) /\ UNCHANGED lastCleanupTime
           ELSE IF Len(stored) > MAX_INDEX_SIZE /\ CleanupDue(now, lastCleanupTime)
                THEN /\ AfterSlot([done EXCEPT !.newIndex = cleanupOldEntries(stored)])
                     /\ lastCleanupTime' = now
                ELSE /\ AfterSlot([done EXCEPT !.newIndex = stored])
                     /\ UNCHANGED lastCleanupTime
    /\ UNCHANGED <<envVars, fileIndex, isIndexing, lastIndexTime, indexingPromise,
                   disposed, caseSensitive, searchState, scheduledTimeouts, init, incr,
                   searches, waiters, hist, px, modal, web, sink>>

\* after `await this.indexBatch(...)`: yield every second batch
BuildBatchEnd ==
    /\ mq # <<>> /\ Head(mq) = "build" /\ build.pc = "batchEnd"
    /\ IF build.i % (BATCH_SIZE * 2) = 0
       THEN /\ build' = [build EXCEPT !.pc = "yield", !.slots = <<>>]
            /\ mq' = Tail(mq)
       ELSE /\ build' = [build EXCEPT !.pc = "loop", !.slots = <<>>,
                                      !.i = @ + BATCH_SIZE]
            /\ mq' = mq
    /\ reportProgress(TRUE)
    /\ UNCHANGED <<envVars, engineVars, init, incr, searches, waiters, hist, px, modal, web>>

\* the setTimeout(0) of the batch loop fires
BuildYield ==
    /\ mq = <<>> /\ build.pc = "yield"
    /\ build' = [build EXCEPT !.pc = "loop", !.i = @ + BATCH_SIZE]
    /\ mq' = <<"build">>
    /\ UNCHANGED <<envVars, engineVars, init, incr, searches, waiters, hist, px, modal, web, sink>>

\* a saveIndexToCache without its try/catch
SaveRethrows(rejected) == rejected

\* the catch block of saveIndexToCache logs the rejection and returns
SaveThrows(rejected) == FALSE

\* workspaceState.update settles: the finally block, and the promise settles.
\* An error that left saveIndexToCache would leave updateIndex through its
\* finally block, as a rejection of findFiles does
BuildSaved ==
    /\ mq = <<>> /\ build.pc = "save"
    /\ isIndexing' = FALSE
    /\ build' = IdleBuild
    /\ IF SaveThrows(UpdateRejected)
       THEN /\ hist' = [hist EXCEPT !.buildFailed = TRUE]
            /\ IF build.owner = "init"
               THEN /\ init' = [init EXCEPT !.pc = "done"]
                    /\ searchState' = [searchState EXCEPT !.isReady = CatchSetsReady(@)]
                    /\ WakeReady(<<>>)
                    /\ UNCHANGED indexingPromise
               ELSE /\ indexingPromise' = "rejected"
                    /\ mq' = waiters.build
                    /\ waiters' = [waiters EXCEPT !.build = <<>>]
                    /\ UNCHANGED <<init, searchState, searches>>
            /\ sink' = sink
       ELSE /\ IF build.owner = "init"
               THEN /\ init' = [init EXCEPT !.pc = "afterBuild"]
                    /\ mq' = <<"init">>
                    /\ UNCHANGED <<indexingPromise, waiters>>
               ELSE /\ indexingPromise' = "fulfilled"
                    /\ mq' = waiters.build
                    /\ waiters' = [waiters EXCEPT !.build = <<>>]
                    /\ UNCHANGED init
            /\ reportProgress(TRUE)
            /\ UNCHANGED <<searchState, searches, hist>>
    /\ UNCHANGED <<envVars, fileIndex, lastIndexTime, lastCleanupTime, disposed,
                   caseSensitive, scheduledTimeouts, incr, px, modal, web>>

(***************************************************************************)
(* performIncrementalUpdate() and indexSingleFile().                       *)
(***************************************************************************)
\* existing is missing, or existing.lastModified < stat.mtime
NeedsReindex(index, f, st) ==
    ~MapHas(index, f) \/ MapGet(index, f).lastModified < st.mtime

\* the paths of the index that the enumeration no longer lists are deleted
RemoveMissing(index, files) ==
    SelectSeq(index, LAMBDA e : e.path \in Range(files))

\* From the head of the file loop on, up to the next await: rec.k is the next
\* file to stat; after the loop come the removal pass and the save.  Answers
\* the index, the record of the call, and whether the call saved, returned
\* (done), and ran through its removal pass (full).
IncrAdvance(index, rec) ==
    IF disposed
    THEN [index |-> index, rec |-> IdleIncr, saved |-> FALSE, done |-> TRUE,
          full |-> FALSE]
    ELSE IF rec.k <= Len(rec.files)
    THEN [index |-> index, rec |-> [rec EXCEPT !.pc = "stat"], saved |-> FALSE,
          done |-> FALSE, full |-> FALSE]
    ELSE LET kept    == RemoveMissing(index, rec.files)
             changed == rec.counted \/ Len(kept) < Len(index)
         IN  IF changed
             THEN [index |-> kept, rec |-> [rec EXCEPT !.pc = "save"],
                   saved |-> TRUE, done |-> FALSE, full |-> TRUE]
             ELSE [index |-> kept, rec |-> IdleIncr, saved |-> FALSE,
                   done |-> TRUE, full |-> TRUE]

\* the caller of a returned incremental update continues
IncrReturn(o) ==
    IF o \in Searches
    THEN /\ searches' = [searches EXCEPT ![o].pc = "scanStart"]
         /\ mq' = <<o>>
    ELSE UNCHANGED <<searches, mq>>

ApplyIncr(o, r) ==
    /\ fileIndex' = r.index
    /\ incr' = [incr EXCEPT ![o] =
                  IF r.rec.pc = "idle" THEN r.rec
                  ELSE [r.rec EXCEPT !.touched = @ \/ r.index # fileIndex]]
    /\ lastIndexTime' = IF r.saved THEN now ELSE lastIndexTime
    /\ store' = IF r.saved /\ ~UpdateRejected
                THEN CacheData(r.index, now, "performIncrementalUpdate")
                ELSE store
    /\ hist' = IF r.full
               THEN [hist EXCEPT
                       !.incrDoneVer = Max({@, incr[o].startVer}),
                       !.updateDoneVer = Max({@, incr[o].startVer})]
               ELSE hist
    /\ IF r.done THEN IncrReturn(o) ELSE UNCHANGED <<searches, mq>>

\* findFiles resolves
IncrEnumerated(o) ==
    /\ mq = <<>> /\ incr[o].pc = "enum"
    /\ ApplyIncr(o, IncrAdvance(fileIndex,
           [incr[o] EXCEPT !.files = TextFiles(disk), !.k = 1, !.counted = FALSE]))
    /\ UNCHANGED <<disk, now, used, limit, isIndexing, indexingPromise, lastCleanupTime,
                   disposed, caseSensitive, searchState, scheduledTimeouts, init, build,
                   waiters, px, modal, web, sink>>

\* findFiles rejects: the catch block of performIncrementalUpdate logs the
\* error and the call returns
IncrEnumFailed(o) ==
    /\ mq = <<>> /\ incr[o].pc = "enum"
    /\ used.fails < limit.fails
    /\ used' = [used EXCEPT !.fails = @ + 1]
    /\ incr' = [incr EXCEPT ![o] = IdleIncr]
    /\ IncrReturn(o)
    /\ UNCHANGED <<disk, now, store, limit, engineVars, init, build, waiters, hist, px, modal, web, sink>>

\* the stat of the next file resolves
IncrStat(o) ==
    /\ mq = <<>> /\ incr[o].pc = "stat"
    /\ LET rec  == incr[o]
           f    == rec.files[rec.k]
           st   == disk[f]
           next == [rec EXCEPT !.k = @ + 1]
       IN  IF StatFails(st) THEN ApplyIncr(o, IncrAdvance(fileIndex, next))
           ELSE IF ~NeedsReindex(fileIndex, f, st)
                THEN ApplyIncr(o, IncrAdvance(fileIndex, next))
           ELSE IF TooLarge(st)
                THEN ApplyIncr(o, IncrAdvance(fileIndex, [next EXCEPT !.counted = TRUE]))
           ELSE /\ incr' = [incr EXCEPT ![o].pc = "read", ![o].mtime = st.mtime,
                                        ![o].size = st.size]
                /\ UNCHANGED <<fileIndex, lastIndexTime, store, hist, searches, mq>>
    /\ UNCHANGED <<disk, now, used, limit, isIndexing, indexingPromise, lastCleanupTime,
                   disposed, caseSensitive, searchState, scheduledTimeouts, init, build,
                   waiters, px, modal, web, sink>>

\* openTextDocument of indexSingleFile resolves
IncrRead(o) ==
    /\ mq = <<>> /\ incr[o].pc = "read"
    /\ LET rec    == incr[o]
           f      == rec.files[rec.k]
           stored == IF OpenFails(disk[f])
                     THEN fileIndex
                     ELSE MapSet(fileIndex, FileIndexEntry(f, disk[f].text, rec.mtime))
       IN  ApplyIncr(o, IncrAdvance(stored,
               [rec EXCEPT !.k = @ + 1, !.counted = TRUE]))
    /\ UNCHANGED <<disk, now, used, limit, isIndexing, indexingPromise, lastCleanupTime,
                   disposed, caseSensitive, searchState, scheduledTimeouts, init, build,
                   waiters, px, modal, web, sink>>

\* workspaceState.update of the incremental update's save resolves
IncrSaved(o) ==
    /\ mq = <<>> /\ incr[o].pc = "save"
    /\ incr' = [incr EXCEPT ![o] = IdleIncr]
    /\ IncrReturn(o)
    /\ reportProgress(~UpdateRejected)
    /\ UNCHANGED <<envVars, engineVars, init, build, waiters, hist, px, modal, web>>

NoTimer == [armed |-> FALSE, due |-> 0]

\* the synchronous head of performIncrementalUpdate()
StartedIncr == [IdleIncr EXCEPT !.pc = "enum", !.startVer = used.fs]

\* a timer callback that looks at the disposed flag only
RefreshUnlessDisposed(isDisposed, indexing) == ~isDisposed

\* !this.disposed && !this.isIndexing
MayRefresh(isDisposed, indexing) == ~isDisposed /\ ~indexing

\* the callback of scheduleIncrementalUpdate's setTimeout; hist.timerRuns
\* counts the refreshes it has started
TimerFire ==
    /\ mq = <<>>
    /\ scheduledTimeouts.armed /\ now >= scheduledTimeouts.due
    /\ scheduledTimeouts' = NoTimer
    /\ IF MayRefresh(disposed, isIndexing)
       THEN /\ incr' = [incr EXCEPT !["timer"] = StartedIncr]
            /\ hist' = [hist EXCEPT !.timerRuns = @ + 1]
       ELSE UNCHANGED <<incr, hist>>
    /\ UNCHANGED <<envVars, fileIndex, isIndexing, lastIndexTime, indexingPromise,
                   lastCleanupTime, disposed, caseSensitive, searchState, init, build,
                   searches, waiters, mq, px, modal, web, sink>>

(***************************************************************************)
(* search() and ensureIndexIsUpdated().                                    *)
(***************************************************************************)
\* a search that lets one-character queries through
QueryTooShortOnlyEmpty(query) == Len(query) < MIN_QUERY_LENGTH - 1

\* query.length < 2
QueryTooShort(query) == Len(query) < MIN_QUERY_LENGTH

\* a gate that runs no incremental update before the full-rebuild age
NeedsIncrementalLate(age) == age > STALE_FULL_AGE

\* indexAge > 2h || this.fileIndex.size === 0
NeedsFullBuild(age, size) == age > STALE_FULL_AGE \/ size = 0

\* indexAge > 5 min
NeedsIncremental(age) == age > STALE_INCREMENTAL_AGE

\* a scan that never looks at its signal between batches
ScanNeverAborted(i, n, aborted) == FALSE

\* the head of the batch loop of search: i < fileEntries.length, then the
\* test of signal.aborted
ScanAborted(i, n, aborted) == i < n /\ aborted

RECURSIVE ScanBatch(_, _, _, _, _, _, _)
\* the inner for loop of search over fileEntries.slice(from, to)
ScanBatch(entries, from, to, query, searchQuery, cs, results) ==
    IF from >= to \/ from >= Len(entries) THEN results
    ELSE ScanBatch(entries, from + 1, to, query, searchQuery, cs,
             ScanEntry(entries[from + 1], query, searchQuery, cs, results))

RECURSIVE ScanChunk(_, _, _, _, _, _)
\* the batch loop of search from offset i up to its next setTimeout(0)
ScanChunk(entries, i, query, searchQuery, cs, results) ==
    IF ~(i < Len(entries)) THEN [i |-> i, results |-> results, yield |-> FALSE]
    ELSE LET found == ScanBatch(entries, i, i + BATCH_SIZE, query, searchQuery, cs, results)
         IN  IF i % (BATCH_SIZE * 4) = 0
             THEN [i |-> i, results |-> found, yield |-> TRUE]
             ELSE ScanChunk(entries, i + BATCH_SIZE, query, searchQuery, cs, found)

\* a finally block that leaves the count as it is
PendingKept(pending) == pending

\* Math.max(0, this.searchState.pendingSearches - 1)
PendingAfter(pending) == Max({0, pending - 1})

\* the finally block of search, and its return or throw
Finish(s, rec, outcome, results) ==
    /\ searches' = [searches EXCEPT ![s] =
           [rec EXCEPT !.pc = "done", !.outcome = outcome,
                       !.result = IF outcome = "results"
                                  THEN sortAndLimitResults(results) ELSE <<>>,
                       !.dropped = IF outcome = "results" THEN 0 ELSE Len(rec.results),
                       !.fileEntries = <<>>, !.results = <<>>, !.i = 0]]
    /\ searchState' = [searchState EXCEPT
           !.isSearching = FALSE,
           !.pendingSearches = PendingAfter(@)]

\* search(query, signal) up to its first await
SearchCall(s, query, aborted) ==
    /\ mq = <<>>
    /\ searches[s].pc \in {"idle", "done"}
    /\ used.calls < limit.calls
    /\ used' = [used EXCEPT !.calls = @ + 1]
    /\ LET rec == [IdleSearch EXCEPT !.query = query, !.aborted = aborted,
                       !.abortAt = IF aborted THEN "call" ELSE "none",
                       !.updatedAt = IF hist.incrDoneVer = used.fs THEN used.fs ELSE -1]
       IN  IF QueryTooShort(query)
           THEN /\ searches' = [searches EXCEPT ![s] =
                       [rec EXCEPT !.pc = "done", !.outcome = "results"]]
                /\ UNCHANGED <<mq, waiters>>
           ELSE IF aborted
           THEN /\ searches' = [searches EXCEPT ![s] =
                       [rec EXCEPT !.pc = "done", !.outcome = "aborted"]]
                /\ UNCHANGED <<mq, waiters>>
           ELSE IF ~searchState.isReady
           THEN /\ searches' = [searches EXCEPT ![s] = [rec EXCEPT !.pc = "awaitReady"]]
                /\ waiters' = [waiters EXCEPT !.ready = Append(@, s)]
                /\ UNCHANGED mq
           ELSE /\ searches' = [searches EXCEPT ![s] = [rec EXCEPT !.pc = "enter"]]
                /\ mq' = <<s>>
                /\ UNCHANGED waiters
    /\ reportProgress(~QueryTooShort(query) /\ ~aborted /\ ~searchState.isReady)
    /\ UNCHANGED <<disk, now, store, limit, engineVars, init, build, incr, hist, px, modal, web>>

\* search() from `isSearching = true` through ensureIndexIsUpdated()'s first await
SearchEnter(s) ==
    /\ mq # <<>> /\ Head(mq) = s /\ searches[s].pc = "enter"
    /\ ~(searches[s].provider /\ searches[s].aborted)
    /\ searchState' = [searchState EXCEPT !.isSearching = TRUE,
                                          !.pendingSearches = @ + 1]
    /\ IF NeedsFullBuild(now - lastIndexTime, Len(fileIndex))
       THEN IF indexingPromise = "pending"
            THEN /\ searches' = [searches EXCEPT ![s].pc = "awaitBuild"]
                 /\ waiters' = [waiters EXCEPT !.build = Append(@, s)]
                 /\ mq' = Tail(mq)
                 /\ UNCHANGED <<build, isIndexing, indexingPromise, incr>>
            ELSE IF indexingPromise = "rejected"
            THEN /\ searches' = [searches EXCEPT ![s].pc = "awaitBuild"]
                 /\ UNCHANGED <<build, isIndexing, indexingPromise, incr, waiters, mq>>
            ELSE IF indexingPromise = "fulfilled" \/ isIndexing
            THEN /\ searches' = [searches EXCEPT ![s].pc = "scanStart"]
                 /\ indexingPromise' = IF indexingPromise = "fulfilled"
                                       THEN "fulfilled" ELSE "null"
                 /\ UNCHANGED <<build, isIndexing, incr, waiters, mq>>
            ELSE /\ build' = StartedBuild(s)
                 /\ isIndexing' = TRUE
                 /\ indexingPromise' = "pending"
                 /\ searches' = [searches EXCEPT ![s].pc = "awaitBuild",
                                                 ![s].starter = TRUE]
                 /\ waiters' = [waiters EXCEPT !.build = Append(@, s)]
                 /\ mq' = Tail(mq)
                 /\ UNCHANGED incr
       ELSE IF NeedsIncremental(now - lastIndexTime) /\ ~disposed
            THEN /\ incr' = [incr EXCEPT ![s] = StartedIncr]
                 /\ searches' = [searches EXCEPT ![s].pc = "awaitIncr"]
                 /\ mq' = Tail(mq)
                 /\ UNCHANGED <<build, isIndexing, indexingPromise, waiters>>
            ELSE /\ searches' = [searches EXCEPT ![s].pc = "scanStart"]
                 /\ UNCHANGED <<build, isIndexing, indexingPromise, incr, waiters, mq>>
    /\ reportProgress(/\ NeedsFullBuild(now - lastIndexTime, Len(fileIndex))
                      /\ indexingPromise = "null" /\ ~isIndexing)
    /\ UNCHANGED <<envVars, fileIndex, lastIndexTime, lastCleanupTime, disposed,
                   caseSensitive, scheduledTimeouts, init, hist, px, modal, web>>

\* SearchProvider.search() calls search() only when waitForReady() has
\* resolved: a signal aborted in the meantime is seen by the first test of
\* search(), which throws before it touches searchState
SearchEnterAborted(s) ==
    /\ mq # <<>> /\ Head(mq) = s /\ searches[s].pc = "enter"
    /\ searches[s].provider /\ searches[s].aborted
    /\ searches' = [searches EXCEPT ![s].pc = "done", ![s].outcome = "aborted"]
    /\ mq' = Tail(mq)
    /\ UNCHANGED <<envVars, engineVars, init, build, incr, waiters, hist, px, modal, web, sink>>

\* an await that goes on as if the promise had been fulfilled
AwaitNeverThrows(promise) == FALSE

\* `await promise` throws when the promise is rejected
AwaitThrows(promise) == promise = "rejected"

\* ensureIndexIsUpdated() after `await this.indexingPromise`: on a rejection
\* the error leaves ensureIndexIsUpdated, before `this.indexingPromise = null`,
\* and search through its catch and finally blocks
SearchBuildSettled(s) ==
    /\ mq # <<>> /\ Head(mq) = s /\ searches[s].pc = "awaitBuild"
    /\ IF AwaitThrows(indexingPromise)
       THEN /\ Finish(s, searches[s], "error", <<>>)
            /\ mq' = Tail(mq)
            /\ UNCHANGED indexingPromise
       ELSE /\ indexingPromise' = IF searches[s].starter THEN "null" ELSE indexingPromise
            /\ searches' = [searches EXCEPT ![s].pc = "scanStart"]
            /\ UNCHANGED <<searchState, mq>>
    /\ UNCHANGED <<envVars, fileIndex, isIndexing, lastIndexTime, lastCleanupTime,
                   disposed, caseSensitive, scheduledTimeouts, init, build,
                   incr, waiters, hist, px, modal, web, sink>>

\* what search() does with the outcome of one stretch of its batch loop
AfterChunk(s, rec, chunk) ==
    IF chunk.yield
    THEN /\ searches' = [searches EXCEPT ![s] =
                [rec EXCEPT !.pc = "yield", !.i = chunk.i, !.results = chunk.results]]
         /\ UNCHANGED searchState
    ELSE Finish(s, rec, "results", chunk.results)

\* search() after the freshness gate: snapshot the entries, scan to the first yield
SearchScanStart(s) ==
    /\ mq # <<>> /\ Head(mq) = s /\ searches[s].pc = "scanStart"
    /\ mq' = Tail(mq)
    /\ IF searches[s].aborted
       THEN Finish(s, searches[s], "aborted", <<>>)
       ELSE LET searchQuery == IF caseSensitive THEN searches[s].query
                               ELSE ToLowerCase(searches[s].query)
                rec == [searches[s] EXCEPT !.searchQuery = searchQuery,
                                           !.modeAtStart = caseSensitive,
                                           !.fileEntries = fileIndex]
            IN  AfterChunk(s, rec,
                    ScanChunk(fileIndex, 0, rec.query, searchQuery, caseSensitive, <<>>))
    /\ reportProgress(~searches[s].aborted)
    /\ UNCHANGED <<envVars, fileIndex, isIndexing, lastIndexTime, indexingPromise,
                   lastCleanupTime, disposed, caseSensitive, scheduledTimeouts, init,
                   build, incr, waiters, hist, px, modal, web>>

\* the setTimeout(0) of the scan fires: the batch loop goes on
SearchScanResume(s) ==
    /\ mq = <<>> /\ searches[s].pc = "yield"
    /\ LET rec == searches[s]
           i   == rec.i + BATCH_SIZE
       IN  IF ScanAborted(i, Len(rec.fileEntries), rec.aborted)
           THEN Finish(s, rec, "aborted", <<>>)
           ELSE AfterChunk(s, rec,
                    ScanChunk(rec.fileEntries, i, rec.query, rec.searchQuery,
                              caseSensitive, rec.results))
    /\ reportProgress(~ScanAborted(searches[s].i + BATCH_SIZE,
                                   Len(searches[s].fileEntries), searches[s].aborted))
    /\ UNCHANGED <<envVars, fileIndex, isIndexing, lastIndexTime, indexingPromise,
                   lastCleanupTime, disposed, caseSensitive, scheduledTimeouts, init,
                   build, incr, waiters, mq, hist, px, modal, web>>

\* setCaseSensitive(cs): the field is assigned before the await of
\* globalState.update, whose outcome changes nothing else
setCaseSensitive(cs) ==
    /\ mq = <<>>
    /\ caseSensitive # cs
    /\ caseSensitive' = cs
    /\ UNCHANGED <<envVars, fileIndex, isIndexing, lastIndexTime, indexingPromise,
                   lastCleanupTime, disposed, searchState, scheduledTimeouts,
                   taskVars, hist, px, modal, web, sink>>

\* the caller aborts the AbortController of a search in flight
Abort(s) ==
    /\ mq = <<>>
    /\ searches[s].pc \notin {"idle", "done"}
    /\ ~searches[s].aborted
    /\ used.aborts < limit.aborts
    /\ used' = [used EXCEPT !.aborts = @ + 1]
    /\ searches' = [searches EXCEPT
           ![s].aborted = TRUE,
           ![s].abortAt =
               IF searches[s].pc # "yield" THEN "gate"
               ELSE IF searches[s].i + BATCH_SIZE < Len(searches[s].fileEntries)
                    THEN "scan" ELSE "last"]
    /\ UNCHANGED <<disk, now, store, limit, engineVars, init, build, incr, waiters, mq,
                   hist, px, modal, web, sink>>

(***************************************************************************)
(* dispose(), the constructor, and the environment.                        *)
(***************************************************************************)
dispose ==
    /\ mq = <<>>
    /\ ~disposed
    /\ used.disposes < limit.disposes
    /\ used' = [used EXCEPT !.disposes = @ + 1]
    /\ disposed' = TRUE
    /\ scheduledTimeouts' = NoTimer
    /\ fileIndex' = <<>>
    /\ sink' = [sink EXCEPT !.progressCallback = "undefined"]
    /\ UNCHANGED <<disk, now, store, limit, isIndexing, lastIndexTime, indexingPromise,
                   lastCleanupTime, caseSensitive, searchState, taskVars, hist, px, modal, web>>

\* the fields of a TextSearcher when its constructor returns, and the call
\* of initialize() that the constructor leaves behind
NewEngine ==
    [fileIndex |-> <<>>, isIndexing |-> FALSE, lastIndexTime |-> 0,
     indexingPromise |-> "null", lastCleanupTime |-> 0, disposed |-> FALSE,
     searchState |-> [isReady |-> FALSE, isSearching |-> FALSE, pendingSearches |-> 0],
     scheduledTimeouts |-> NoTimer,
     init |-> IdleInit, build |-> IdleBuild,
     incr |-> [o \in Owners |-> IdleIncr],
     searches |-> [s \in Searches |-> IdleSearch],
     waiters |-> [ready |-> <<>>, build |-> <<>>],
     mq |-> <<"init">>]

Constructed ==
    /\ fileIndex = NewEngine.fileIndex
    /\ isIndexing = NewEngine.isIndexing
    /\ lastIndexTime = NewEngine.lastIndexTime
    /\ indexingPromise = NewEngine.indexingPromise
    /\ lastCleanupTime = NewEngine.lastCleanupTime
    /\ disposed = NewEngine.disposed
    /\ searchState = NewEngine.searchState
    /\ scheduledTimeouts = NewEngine.scheduledTimeouts
    /\ init = NewEngine.init
    /\ build = NewEngine.build
    /\ incr = NewEngine.incr
    /\ searches = NewEngine.searches
    /\ waiters = NewEngine.waiters
    /\ mq = NewEngine.mq
    /\ hist = NoHistory

\* the window reloads: the old engine is gone with all its pending work, and
\* a fresh TextSearcher is constructed over the same workspace and storage
Restart ==
    /\ used.restarts < limit.restarts
    /\ used' = [used EXCEPT !.restarts = @ + 1]
    /\ fileIndex' = NewEngine.fileIndex
    /\ isIndexing' = NewEngine.isIndexing
    /\ lastIndexTime' = NewEngine.lastIndexTime
    /\ indexingPromise' = NewEngine.indexingPromise
    /\ lastCleanupTime' = NewEngine.lastCleanupTime
    /\ disposed' = NewEngine.disposed
    /\ searchState' = NewEngine.searchState
    /\ scheduledTimeouts' = NewEngine.scheduledTimeouts
    /\ init' = NewEngine.init
    /\ build' = NewEngine.build
    /\ incr' = NewEngine.incr
    /\ searches' = NewEngine.searches
    /\ waiters' = NewEngine.waiters
    /\ mq' = NewEngine.mq
    /\ hist' = NoHistory
    /\ sink' = NewSink
    /\ UNCHANGED <<disk, now, store, limit, caseSensitive, px, modal, web>>

Tick ==
    /\ mq = <<>>
    /\ used.ticks < limit.ticks
    /\ used' = [used EXCEPT !.ticks = @ + 1]
    /\ now' = now + 1
    /\ UNCHANGED <<disk, store, limit, engineVars, taskVars, hist, px, modal, web, sink>>

T1 == <<"a", "a">>
T2 == <<"b", "b">>
EngineTexts == {T1, T2}
EngineQueries == {<<"a", "a">>, <<"a">>}

\* a file is created or rewritten, with any content, size and mtime
FsWrite(f, text, mtime, size) ==
    /\ mq = <<>>
    /\ used.fs < limit.fs
    /\ f \in limit.files
    /\ disk[f] # [exists |-> TRUE, mtime |-> mtime, size |-> size, text |-> text]
    /\ used' = [used EXCEPT !.fs = @ + 1]
    /\ disk' = [disk EXCEPT ![f] =
                  [exists |-> TRUE, mtime |-> mtime, size |-> size, text |-> text]]
    /\ UNCHANGED <<now, store, limit, engineVars, taskVars, hist, px, modal, web, sink>>

FsDelete(f) ==
    /\ mq = <<>>
    /\ used.fs < limit.fs
    /\ f \in limit.files
    /\ disk[f].exists
    /\ used' = [used EXCEPT !.fs = @ + 1]
    /\ disk' = [disk EXCEPT ![f] = Absent]
    /\ UNCHANGED <<now, store, limit, engineVars, taskVars, hist, px, modal, web, sink>>

File(mtime, size, text) ==
    [exists |-> TRUE, mtime |-> mtime, size |-> size, text |-> text]

NoneUsed ==
    [fs |-> 0, calls |-> 0, ticks |-> 0, disposes |-> 0, restarts |-> 0, aborts |-> 0,
     fails |-> 0]

PxOff ==
    [phase |-> "off", text |-> <<>>, query |-> <<>>, cs |-> TRUE, out |-> <<>>,
     paths |-> <<>>, text2 |-> <<>>, ranked |-> <<>>]

\* one direct call of the matcher search() dispatches to, on one file
MatcherCall ==
    /\ px.phase = "in"
    /\ px' = [px EXCEPT
                !.phase = "done",
                !.out = ScanEntry(FileIndexEntry("a.ts", px.text, 1), px.query,
                                  IF px.cs THEN px.query ELSE ToLowerCase(px.query),
                                  px.cs, <<>>)]
    /\ UNCHANGED <<envVars, engineVars, taskVars, hist, modal, web, sink>>

\* the scan and the return of search() over an index of two files: px.out is
\* the results array when the batch loop ends, px.ranked what is returned
RankerCall ==
    /\ px.phase = "rank"
    /\ LET index == <<FileIndexEntry(px.paths[1], px.text, 1),
                      FileIndexEntry(px.paths[2], px.text2, 1)>>
           searchQuery == IF px.cs THEN px.query ELSE ToLowerCase(px.query)
           results == ScanChunk(index, 0, px.query, searchQuery, px.cs, <<>>).results
       IN  px' = [px EXCEPT !.phase = "ranked",
                            !.out = results,
                            !.ranked = sortAndLimitResults(results)]
    /\ UNCHANGED <<envVars, engineVars, taskVars, hist, modal, web, sink>>

(***************************************************************************)
(* SearchModal.performSearch(), src/src/searchModal.ts, and                *)
(* SearchProvider.search(), src/src/textSearcher.ts.                       *)
(***************************************************************************)
\* a modal that posts the outcome of every search
AlwaysLatest(searchId, current) == TRUE

\* searchId === this.currentSearchId
IsLatest(searchId, current) == searchId = current

\* performSearch(query) up to its await: abort the controller of the call
\* before, take the next searchId, answer a short query at once, else call
\* the provider, which calls search() when the engine is ready
performSearch(s, query) ==
    /\ mq = <<>>
    /\ searches[s].pc \in {"idle", "done"} /\ ~modal.pending[s]
    /\ used.calls < limit.calls
    /\ used' = [used EXCEPT !.calls = @ + 1]
    /\ LET searchId == modal.currentSearchId + 1
           prev     == modal.abortController
           others   == [t \in Searches |->
                          IF t = prev /\ searches[t].pc \notin {"idle", "done"}
                          THEN [searches[t] EXCEPT !.aborted = TRUE]
                          ELSE searches[t]]
           rec      == [IdleSearch EXCEPT
                          !.query = query, !.provider = TRUE,
                          !.updatedAt = IF hist.incrDoneVer = used.fs THEN used.fs ELSE -1]
       IN  IF Len(query) < MIN_QUERY_LENGTH
           THEN /\ modal' = [modal EXCEPT
                       !.currentSearchId = searchId,
                       !.abortController = "unused",
                       !.posted = @ \cup {[searchId |-> searchId,
                                           type |-> "searchResults",
                                           query |-> query]}]
                /\ searches' = others
                /\ UNCHANGED <<mq, waiters>>
           ELSE /\ modal' = [modal EXCEPT
                       !.currentSearchId = searchId,
                       !.abortController = s,
                       !.idOf[s] = searchId,
                       !.pending[s] = TRUE]
                /\ IF ~searchState.isReady
                   THEN /\ searches' = [others EXCEPT ![s] = [rec EXCEPT !.pc = "awaitReady"]]
                        /\ waiters' = [waiters EXCEPT !.ready = Append(@, s)]
                        /\ UNCHANGED mq
                   ELSE /\ searches' = [others EXCEPT ![s] = [rec EXCEPT !.pc = "enter"]]
                        /\ mq' = <<s>>
                        /\ UNCHANGED waiters
    /\ UNCHANGED <<disk, now, store, limit, engineVars, init, build, incr, hist, px,
                   sink>>

\* performSearch after `await this.searchProvider.search(...)`: the results
\* or, in the catch block, the error are posted when the search is still the
\* latest one
performSearchSettled(s) ==
    /\ mq = <<>>
    /\ modal.pending[s] /\ searches[s].pc = "done"
    /\ LET searchId == modal.idOf[s]
           message  == [searchId |-> searchId,
                        type |-> IF searches[s].outcome = "results"
                                 THEN "searchResults" ELSE "searchError",
                        query |-> searches[s].query]
       IN  modal' = IF IsLatest(searchId, modal.currentSearchId)
                    THEN [modal EXCEPT !.pending[s] = FALSE,
                                       !.posted = @ \cup {message}]
                    ELSE [modal EXCEPT !.pending[s] = FALSE,
                                       !.ignored = @ \cup {searchId}]
    /\ UNCHANGED <<envVars, engineVars, taskVars, hist, px, sink>>

(***************************************************************************)
(* The script of the webview and the messages between it and the modal.    *)
(***************************************************************************)
\* what the results container shows: the hint for an empty or one-character
\* input, the spinner, or the results or the error of a query
Shown(kind, query) == [kind |-> kind, query |-> query]

\* the script when the page has loaded.  outbox holds the search messages
\* posted and not yet handled by the modal; received is the searchId of the
\* last message of the modal that was delivered; initPosted says that the
\* modal has posted searchInitialized; typed counts the input events
NewWebview ==
    [input |-> <<>>, searchTimeout |-> [armed |-> FALSE, query |-> <<>>],
     currentSearchId |-> 0, isSearching |-> FALSE, searchInitialized |-> FALSE,
     shown |-> Shown("progress", <<>>),
     outbox |-> <<>>, received |-> 0, initPosted |-> FALSE, typed |-> 0]

\* a debounce callback that sends its query whether or not a search is in flight
NeverBusy(isSearching) == FALSE

\* the test `!isSearching` of the debounce callback, negated
Busy(isSearching) == isSearching

\* the input event of the search box: restart the debounce timer, show the
\* hint or the spinner
onInput(query) ==
    /\ web.typed < MaxInputs
    /\ query # web.input
    /\ web' = [web EXCEPT
                 !.typed = @ + 1,
                 !.input = query,
                 !.searchTimeout = [armed |-> TRUE, query |-> query],
                 !.shown = IF Len(query) < MIN_QUERY_LENGTH
                           THEN Shown("hint", query) ELSE Shown("loading", query)]
    /\ UNCHANGED <<envVars, engineVars, taskVars, hist, px, modal, sink>>

\* the debounce callback, 150 ms after the last input event
searchTimeoutFires ==
    /\ web.searchTimeout.armed
    /\ LET query == web.searchTimeout.query
       IN  IF ~Busy(web.isSearching) /\ web.searchInitialized
           THEN web' = [web EXCEPT
                          !.searchTimeout.armed = FALSE,
                          !.isSearching = TRUE,
                          !.currentSearchId = @ + 1,
                          !.outbox = Append(@, [query |-> query,
                                                searchId |-> web.currentSearchId + 1])]
           ELSE IF ~web.searchInitialized /\ Len(query) >= MIN_QUERY_LENGTH
           THEN web' = [web EXCEPT !.searchTimeout.armed = FALSE,
                                   !.shown = Shown("preparing", query)]
           ELSE web' = [web EXCEPT !.searchTimeout.armed = FALSE]
    /\ UNCHANGED <<envVars, engineVars, taskVars, hist, px, modal, sink>>

\* onDidReceiveMessage, case 'search': the modal calls performSearch
onSearchMessage(s) ==
    /\ web.outbox # <<>>
    /\ performSearch(s, Head(web.outbox).query)
    /\ web' = [web EXCEPT !.outbox = Tail(@)]

\* initializeSearch(): after waitForReady() the modal posts searchInitialized
initializeSearch ==
    /\ mq = <<>>
    /\ init.pc = "done" /\ ~web.initPosted
    /\ web' = [web EXCEPT !.initPosted = TRUE]
    /\ UNCHANGED <<envVars, engineVars, taskVars, hist, px, modal, sink>>

\* the message handler of the script, for searchInitialized
onSearchInitialized ==
    /\ web.initPosted /\ ~web.searchInitialized
    /\ web' = [web EXCEPT !.searchInitialized = TRUE,
                          !.shown = Shown("hint", <<>>)]
    /\ UNCHANGED <<envVars, engineVars, taskVars, hist, px, modal, sink>>

\* the messages of the modal not yet delivered to the script
Undelivered == {m \in modal.posted : m.searchId > web.received}

\* the message handler of the script, for searchResults and searchError:
\* the messages arrive in the order in which they were posted
onMessage ==
    /\ web.searchInitialized
    /\ Undelivered # {}
    /\ LET message == CHOOSE m \in Undelivered :
                          \A n \in Undelivered : m.searchId <= n.searchId
       IN  web' = IF message.searchId >= web.currentSearchId
                  THEN [web EXCEPT
                          !.received = message.searchId,
                          !.isSearching = FALSE,
                          !.shown = Shown(IF message.type = "searchResults"
                                          THEN "results" ELSE "error",
                                          message.query)]
                  ELSE [web EXCEPT !.received = message.searchId]
    /\ UNCHANGED <<envVars, engineVars, taskVars, hist, px, modal, sink>>

(***************************************************************************)
(* The handlers, grouped.                                                  *)
(***************************************************************************)
Loading ==
    \/ InitLoadStat
    \/ InitLoadEnd
    \/ TimerFire

Building ==
    \/ InitLoad
    \/ InitBuilt
    \/ BuildEnumerated
    \/ BuildLoop
    \/ \E j \in 1..BATCH_SIZE : BuildStat(j)
    \/ \E j \in 1..BATCH_SIZE : BuildRead(j)
    \/ BuildBatchEnd
    \/ BuildYield
    \/ BuildSaved

Updating ==
    \/ \E o \in Owners : IncrEnumerated(o)
    \/ \E o \in Owners : IncrStat(o)
    \/ \E o \in Owners : IncrRead(o)
    \/ \E o \in Owners : IncrSaved(o)

Calls ==
    \E s \in Searches, q \in EngineQueries, a \in BOOLEAN : SearchCall(s, q, a)

Searching ==
    \/ \E s \in Searches : SearchEnter(s)
    \/ \E s \in Searches : SearchBuildSettled(s)
    \/ \E s \in Searches : SearchScanStart(s)
    \/ \E s \in Searches : SearchScanResume(s)

FileChanges ==
    \/ \E f \in Files, t \in EngineTexts, m \in 1..MaxMtime, z \in 1..2 :
           FsWrite(f, t, m, z)
    \/ \E f \in Files : FsDelete(f)

Aborts == \E s \in Searches : Abort(s)

Failures ==
    \/ BuildEnumFailed
    \/ \E o \in Owners : IncrEnumFailed(o)

\* the SearchModal when it is created: no search made, nothing posted.
\* idOf and pending say which call of performSearch awaits which search;
\* posted and ignored are history: the searchResults and searchError messages
\* sent to the webview, and the searches whose outcome was dropped
NewModal ==
    [currentSearchId |-> 0, abortController |-> "null",
     idOf |-> [s \in Searches |-> 0], pending |-> [s \in Searches |-> FALSE],
     posted |-> {}, ignored |-> {}]

EngineIdle ==
    /\ caseSensitive = TRUE
    /\ Constructed
    /\ modal = NewModal
    /\ web = NewWebview
    /\ sink = NewSink

(***************************************************************************)
(* Spec: one engine over a workspace of two text files and one image,      *)
(* built from scratch; searches, file changes and time.                    *)
(***************************************************************************)
Init ==
    /\ disk = [f \in Files |->
                 IF f = "a.ts" THEN File(1, 1, T1)
                 ELSE IF f = "b.ts" THEN File(1, 1, T2)
                 ELSE IF f = "c.PNG" THEN File(1, 1, T1)
                 ELSE Absent]
    /\ now = StartTime
    /\ store = NoCache
    /\ used = NoneUsed
    /\ limit = [fs |-> MaxFsOps, calls |-> MaxCalls, ticks |-> MaxTicks,
                disposes |-> 0, restarts |-> 0, aborts |-> 0, fails |-> 0, broken |-> {}, files |-> {"a.ts"}]
    /\ EngineIdle
    /\ px = PxOff

Next == Building \/ Updating \/ Calls \/ Searching \/ FileChanges \/ Tick

Spec == Init /\ [][Next]_vars

(***************************************************************************)
(* SpecBuild: a workspace of five text files, one more than the index      *)
(* holds, that never changes; full builds, searches and time.              *)
(***************************************************************************)
InitBuild ==
    /\ \E oldest \in {"a.ts", "f.ts"} :
         disk = [f \in Files |->
                   IF f \in {"c.PNG", "g.ts"} THEN Absent
                   ELSE IF f = oldest THEN File(1, 1, T1)
                   ELSE IF f \in {"a.ts", "f.ts"} THEN File(MaxMtime, 1, T1)
                   ELSE File(MaxMtime, 1, T2)]
    /\ now = StartTime
    /\ store = NoCache
    /\ used = NoneUsed
    /\ limit = [fs |-> 0, calls |-> MaxCalls, ticks |-> MaxTicks,
                disposes |-> 0, restarts |-> 0, aborts |-> 0, fails |-> 0, broken |-> {}, files |-> {}]
    /\ EngineIdle
    /\ px = PxOff

NextBuild == Building \/ Updating \/ Calls \/ Searching \/ Tick

SpecBuild == InitBuild /\ [][NextBuild]_vars

(***************************************************************************)
(* SpecCache: the engine starts over what an earlier run left in workspace *)
(* storage: nothing, or a snapshot of this or another workspace, of this   *)
(* or an older format, recent or too old, with entries that match the disk *)
(* or not.  The window may be reloaded and the engine disposed.            *)
(***************************************************************************)
GoodIndex == <<FileIndexEntry("a.ts", T1, 1), FileIndexEntry("b.ts", T2, 1)>>

\* a.ts was rewritten after this one was saved
OutdatedIndex == <<FileIndexEntry("a.ts", T2, 0), FileIndexEntry("b.ts", T2, 1)>>

Snapshots ==
    {[present |-> TRUE, version |-> v, workspaceHash |-> calculateWorkspaceHash(w),
      lastIndexTime |-> t, fileIndex |-> idx,
      savedVer |-> IF idx = GoodIndex THEN 0 ELSE -1, savedBy |-> "updateIndex"] :
        v \in {CACHE_VERSION, "1.1.0"}, w \in Workspaces,
        t \in {StartTime - 1, StartTime - MAX_CACHE_AGE - 1},
        idx \in {GoodIndex, OutdatedIndex}}

InitCache ==
    /\ disk = [f \in Files |->
                 IF f = "a.ts" THEN File(1, 1, T1)
                 ELSE IF f = "b.ts" THEN File(1, 1, T2)
                 ELSE IF f = "c.PNG" THEN File(1, 1, T1)
                 ELSE Absent]
    /\ now = StartTime
    /\ store \in {NoCache} \cup Snapshots
    /\ used = NoneUsed
    /\ limit = [fs |-> MaxFsOps, calls |-> 0, ticks |-> MaxCacheTicks,
                disposes |-> 1, restarts |-> 1, aborts |-> 0, fails |-> 0, broken |-> {}, files |-> {"a.ts"}]
    /\ EngineIdle
    /\ px = PxOff

NextCache ==
    \/ Loading \/ Building \/ Updating \/ Tick \/ Restart \/ dispose
    \/ \E f \in Files, z \in 1..2 : FsWrite(f, T2, MaxMtime, z) \/ FsDelete(f)

SpecCache == InitCache /\ [][NextCache]_vars

(***************************************************************************)
(* SpecRace: the engine starts over a snapshot that is older than the full *)
(* rebuild age but not too old to load, and that lacks b.ts; searches for  *)
(* "aa" arrive, a.ts may be deleted, and time passes.                      *)
(***************************************************************************)
InitRace ==
    /\ disk = [f \in Files |->
                 IF f = "a.ts" THEN File(1, 1, T1)
                 ELSE IF f = "b.ts" THEN File(1, 1, T2)
                 ELSE Absent]
    /\ now = StartTime
    /\ store = [present |-> TRUE, version |-> CACHE_VERSION,
                workspaceHash |-> calculateWorkspaceHash(ThisWorkspace),
                lastIndexTime |-> StartTime - MAX_CACHE_AGE,
                fileIndex |-> <<FileIndexEntry("a.ts", T1, 1)>>, savedVer |-> 0,
                savedBy |-> "updateIndex"]
    /\ used = NoneUsed
    /\ limit = [fs |-> 1, calls |-> MaxCalls + 1, ticks |-> MaxTicks,
                disposes |-> 0, restarts |-> 0, aborts |-> 0, fails |-> 0, broken |-> {}, files |-> {"a.ts"}]
    /\ EngineIdle
    /\ px = PxOff

NextRace ==
    \/ Loading \/ Building \/ Updating \/ Searching \/ Tick
    \/ \E s \in Searches : SearchCall(s, T1, FALSE)
    \/ \E f \in Files : FsDelete(f)

SpecRace == InitRace /\ [][NextRace]_vars

(***************************************************************************)
(* SpecTimer: the engine starts over a snapshot that loads, fresh or older *)
(* than the full rebuild age; the refresh timer is armed, one search for   *)
(* "aa" may arrive before or after it fires, the engine may be disposed,   *)
(* a.ts may change, and time passes.                                       *)
(***************************************************************************)
InitTimer ==
    /\ disk = [f \in Files |->
                 IF f = "a.ts" THEN File(1, 1, T1)
                 ELSE IF f = "b.ts" THEN File(1, 1, T2)
                 ELSE Absent]
    /\ now = StartTime
    /\ store \in {[present |-> TRUE, version |-> CACHE_VERSION,
                   workspaceHash |-> calculateWorkspaceHash(ThisWorkspace),
                   lastIndexTime |-> t, fileIndex |-> GoodIndex, savedVer |-> 0,
                   savedBy |-> "updateIndex"] :
                      t \in {StartTime - 1, StartTime - MAX_CACHE_AGE}}
    /\ used = NoneUsed
    /\ limit = [fs |-> 1, calls |-> 1, ticks |-> MaxCacheTicks,
                disposes |-> 1, restarts |-> 0, aborts |-> 0, fails |-> 0, broken |-> {},
                files |-> {"a.ts"}]
    /\ EngineIdle
    /\ px = PxOff

NextTimer ==
    \/ Loading \/ Building \/ Updating \/ Searching \/ Tick \/ dispose
    \/ \E s \in Searches : SearchCall(s, T1, FALSE)
    \/ \E f \in Files : FsWrite(f, T2, MaxMtime, 1) \/ FsDelete(f)

SpecTimer == InitTimer /\ [][NextTimer]_vars

(***************************************************************************)
(* SpecSink: the engine has a progress callback that may throw. It starts  *)
(* over no snapshot or over one that lacks b.ts; searches for "aa" arrive  *)
(* and the engine may be disposed.                                         *)
(***************************************************************************)
InitSink ==
    /\ disk = [f \in Files |->
                 IF f = "a.ts" THEN File(1, 1, T1)
                 ELSE IF f = "b.ts" THEN File(1, 1, T2)
                 ELSE Absent]
    /\ now = StartTime
    /\ store \in {NoCache,
                  [present |-> TRUE, version |-> CACHE_VERSION,
                   workspaceHash |-> calculateWorkspaceHash(ThisWorkspace),
                   lastIndexTime |-> StartTime - 1,
                   fileIndex |-> <<FileIndexEntry("a.ts", T1, 1)>>, savedVer |-> 0,
                   savedBy |-> "updateIndex"]}
    /\ used = NoneUsed
    /\ limit = [fs |-> 0, calls |-> MaxCalls, ticks |-> 0,
                disposes |-> 1, restarts |-> 0, aborts |-> 0, fails |-> 0, broken |-> {},
                files |-> {}]
    /\ caseSensitive = TRUE
    /\ Constructed
    /\ modal = NewModal
    /\ web = NewWebview
    /\ sink = [NewSink EXCEPT !.progressCallback = "set", !.throwsLeft = MaxThrows]
    /\ px = PxOff

NextSink ==
    \/ Loading \/ Building \/ Updating \/ Searching \/ dispose
    \/ \E s \in Searches : SearchCall(s, T1, FALSE)

SpecSink == InitSink /\ [][NextSink]_vars

(***************************************************************************)
(* SpecBroken: workspaceState may throw on get, reject every update, or    *)
(* both. The engine starts over no snapshot, over a fresh one that lacks   *)
(* b.ts, or over one older than the full rebuild age; one search for "aa"  *)
(* arrives, and time passes.                                               *)
(***************************************************************************)
BrokenSnapshots ==
    {[present |-> TRUE, version |-> CACHE_VERSION,
      workspaceHash |-> calculateWorkspaceHash(ThisWorkspace),
      lastIndexTime |-> StartTime - 1,
      fileIndex |-> <<FileIndexEntry("a.ts", T1, 1)>>, savedVer |-> 0,
      savedBy |-> "updateIndex"],
     [present |-> TRUE, version |-> CACHE_VERSION,
      workspaceHash |-> calculateWorkspaceHash(ThisWorkspace),
      lastIndexTime |-> StartTime - MAX_CACHE_AGE,
      fileIndex |-> GoodIndex, savedVer |-> 0, savedBy |-> "updateIndex"]}

InitBroken ==
    /\ disk = [f \in Files |->
                 IF f = "a.ts" THEN File(1, 1, T1)
                 ELSE IF f = "b.ts" THEN File(1, 1, T2)
                 ELSE Absent]
    /\ now = StartTime
    /\ store \in {NoCache} \cup BrokenSnapshots
    /\ used = NoneUsed
    /\ \E b \in SUBSET {"get", "update"} :
           limit = [fs |-> 0, calls |-> 1, ticks |-> MaxCacheTicks,
                    disposes |-> 0, restarts |-> 0, aborts |-> 0, fails |-> 0,
                    broken |-> b, files |-> {}]
    /\ EngineIdle
    /\ px = PxOff

NextBroken ==
    \/ Loading \/ Building \/ Updating \/ Searching \/ Tick
    \/ \E s \in Searches : SearchCall(s, T1, FALSE)

SpecBroken == InitBroken /\ [][NextBroken]_vars

(***************************************************************************)
(* SpecFilter: the engine starts over no snapshot or over a fresh one of   *)
(* a.ts and b.ts, next to c.PNG; a.ts may be rewritten, under or over the  *)
(* size limit, while the load, the build or the refresh is under way.      *)
(***************************************************************************)
InitFilter ==
    /\ disk = [f \in Files |->
                 IF f = "a.ts" THEN File(1, 1, T1)
                 ELSE IF f = "b.ts" THEN File(1, 1, T2)
                 ELSE IF f = "c.PNG" THEN File(1, 1, T1)
                 ELSE Absent]
    /\ now = StartTime
    /\ store \in {NoCache,
                  [present |-> TRUE, version |-> CACHE_VERSION,
                   workspaceHash |-> calculateWorkspaceHash(ThisWorkspace),
                   lastIndexTime |-> StartTime - 1, fileIndex |-> GoodIndex,
                   savedVer |-> 0, savedBy |-> "updateIndex"]}
    /\ used = NoneUsed
    /\ limit = [fs |-> MaxFsOps + 1, calls |-> 0, ticks |-> 0,
                disposes |-> 0, restarts |-> 0, aborts |-> 0, fails |-> 0,
                broken |-> {}, files |-> {"a.ts", "c.PNG"}]
    /\ EngineIdle
    /\ px = PxOff

NextFilter ==
    \/ Loading \/ Building \/ Updating
    \/ \E f \in Files, z \in 1..2 : FsWrite(f, T2, MaxMtime, z)

SpecFilter == InitFilter /\ [][NextFilter]_vars

(***************************************************************************)
(* SpecPure: the matchers applied to one file, for every short text and    *)
(* query over a small alphabet and both case modes.                        *)
(***************************************************************************)
Alphabet == {"a", "A", NL}

SeqsOfLength(S, lo, hi) == UNION {[1..n -> S] : n \in lo..hi}

ExampleText ==
    <<"x", NL, "l", "i", "n", "e", "1", NL, "l", "i", "n", "e", "2", NL, "y">>
ExampleQuery == <<"l", "i", "n", "e", "1", NL, "l", "i", "n", "e", "2">>

CrLfText == <<"a", CR, NL, "a", NL, "a">>
CrLfQuery == <<"a", CR, NL, "a">>
\* a file of two lines saved with CRLF line breaks, as getText() returns it
CrLfFile == <<"a", CR, NL, "a">>
\* a line that starts with U+0130
IDotText == <<IDot, "a", "a">>

PureTexts ==
    SeqsOfLength(Alphabet, 0, MaxTextLen) \cup {ExampleText, CrLfText, CrLfFile, IDotText}
PureQueries ==
    SeqsOfLength(Alphabet, MIN_QUERY_LENGTH, MaxQueryLen) \cup {ExampleQuery, CrLfQuery, <<CR, NL>>}

InitPure ==
    /\ disk = [f \in Files |-> Absent]
    /\ now = StartTime
    /\ store = NoCache
    /\ used = NoneUsed
    /\ limit = [fs |-> 0, calls |-> 0, ticks |-> 0,
                disposes |-> 0, restarts |-> 0, aborts |-> 0, fails |-> 0, broken |-> {}, files |-> {}]
    /\ EngineIdle
    /\ px \in [phase : {"in"}, text : PureTexts, query : PureQueries,
               cs : BOOLEAN, out : {<<>>}, paths : {<<>>}, text2 : {<<>>},
               ranked : {<<>>}]

NextPure == MatcherCall

SpecPure == InitPure /\ [][NextPure]_vars

(***************************************************************************)
(* SpecAbort: a workspace of two or of five text files that never changes; *)
(* searches for "aa" whose callers may abort them while they are in        *)
(* flight, and time.                                                       *)
(***************************************************************************)
InitAbort ==
    /\ \E small \in BOOLEAN :
         disk = [f \in Files |->
                   IF f \in {"a.ts", "b.ts"}
                   THEN File(1, 1, IF f = "a.ts" THEN T1 ELSE T2)
                   ELSE IF small \/ f \in {"c.PNG", "g.ts"} THEN Absent
                   ELSE File(MaxMtime, 1, T1)]
    /\ now = StartTime
    /\ store = NoCache
    /\ used = NoneUsed
    /\ limit = [fs |-> 0, calls |-> MaxCalls, ticks |-> MaxTicks,
                disposes |-> 0, restarts |-> 0, aborts |-> MaxAborts, fails |-> 0, broken |-> {},
                files |-> {}]
    /\ EngineIdle
    /\ px = PxOff

NextAbort ==
    \/ Building \/ Updating \/ Searching \/ Tick \/ Aborts
    \/ \E s \in Searches, a \in BOOLEAN : SearchCall(s, T1, a)

SpecAbort == InitAbort /\ [][NextAbort]_vars

(***************************************************************************)
(* SpecDispose: the workspace of Spec, where a.ts may be deleted; searches *)
(* for "aa", time, and the disposal of the engine at any moment.           *)
(***************************************************************************)
InitDispose ==
    /\ disk = [f \in Files |->
                 IF f = "a.ts" THEN File(1, 1, T1)
                 ELSE IF f = "b.ts" THEN File(1, 1, T2)
                 ELSE IF f = "c.PNG" THEN File(1, 1, T1)
                 ELSE Absent]
    /\ now = StartTime
    /\ store = NoCache
    /\ used = NoneUsed
    /\ limit = [fs |-> MaxFsOps, calls |-> MaxCalls, ticks |-> MaxTicks,
                disposes |-> 1, restarts |-> 0, aborts |-> 0, fails |-> 0, broken |-> {},
                files |-> {"a.ts"}]
    /\ EngineIdle
    /\ px = PxOff

NextDispose ==
    \/ Building \/ Updating \/ Searching \/ Tick \/ dispose
    \/ \E s \in Searches : SearchCall(s, T1, FALSE)
    \/ \E f \in Files : FsDelete(f)

SpecDispose == InitDispose /\ [][NextDispose]_vars

(***************************************************************************)
(* SpecGate: a workspace whose one text file may be rewritten or deleted,  *)
(* so that the index may be empty; searches for "aa" and time.             *)
(***************************************************************************)
InitGate ==
    /\ disk = [f \in Files |->
                 IF f = "a.ts" THEN File(1, 1, T1)
                 ELSE IF f = "c.PNG" THEN File(1, 1, T1)
                 ELSE Absent]
    /\ now = StartTime
    /\ store = NoCache
    /\ used = NoneUsed
    /\ limit = [fs |-> MaxFsOps, calls |-> MaxCalls, ticks |-> MaxTicks,
                disposes |-> 0, restarts |-> 0, aborts |-> 0, fails |-> 0, broken |-> {},
                files |-> {"a.ts"}]
    /\ EngineIdle
    /\ px = PxOff

NextGate ==
    \/ Building \/ Updating \/ Searching \/ Tick
    \/ \E s \in Searches : SearchCall(s, T1, FALSE)
    \/ \E f \in Files : FsWrite(f, T2, MaxMtime, 1) \/ FsDelete(f)

SpecGate == InitGate /\ [][NextGate]_vars

(***************************************************************************)
(* SpecStored: the engine starts in a workspace of five text files that    *)
(* never change, over whatever an earlier run stored: nothing, or a        *)
(* snapshot of this or another workspace, of this or an older format,      *)
(* younger than, exactly as old as or older than the maximum cache age,    *)
(* empty or with five entries of which any number are out of date.         *)
(***************************************************************************)
StoredFiles == <<"a.ts", "b.ts", "d.ts", "e.ts", "f.ts">>

\* the entries of the five files, the first k with the mtime the file has
\* on disk, the others saved before their file was last written
StoredIndex(k) ==
    [i \in 1..Len(StoredFiles) |->
        FileIndexEntry(StoredFiles[i], T1, IF i <= k THEN 1 ELSE 0)]

StoredSnapshots ==
    {[present |-> TRUE, version |-> v, workspaceHash |-> calculateWorkspaceHash(w),
      lastIndexTime |-> t, fileIndex |-> idx, savedVer |-> -1,
      savedBy |-> "updateIndex"] :
        v \in {CACHE_VERSION, "1.1.0"}, w \in Workspaces,
        t \in {StartTime - 1, StartTime - MAX_CACHE_AGE,
               StartTime - MAX_CACHE_AGE - 1},
        idx \in {<<>>} \cup {StoredIndex(k) : k \in 0..Len(StoredFiles)}}

InitStored ==
    /\ disk = [f \in Files |->
                 IF f \in Range(StoredFiles) THEN File(1, 1, T1) ELSE Absent]
    /\ now = StartTime
    /\ store \in {NoCache} \cup StoredSnapshots
    /\ used = NoneUsed
    /\ limit = [fs |-> 0, calls |-> 0, ticks |-> 0,
                disposes |-> 0, restarts |-> 0, aborts |-> 0, fails |-> 0, broken |-> {},
                files |-> {}]
    /\ EngineIdle
    /\ px = PxOff

NextStored == Loading \/ Building \/ Updating

SpecStored == InitStored /\ [][NextStored]_vars

(***************************************************************************)
(* SpecCorrupt: the workspace of Spec with a fresh stored snapshot of this *)
(* workspace in which the entry of a.ts is sound, or has a line that is    *)
(* not a string before or after its line "aa"; the snapshot is loaded, and *)
(* searches for "aa" and "a" scan it.                                      *)
(***************************************************************************)
CorruptEntries ==
    {[path |-> "a.ts", lines |-> ls, lastModified |-> 1] :
        ls \in {<<T1>>, <<CorruptLine, T1>>, <<T1, CorruptLine>>}}

CorruptSnapshots ==
    {[present |-> TRUE, version |-> CACHE_VERSION,
      workspaceHash |-> calculateWorkspaceHash(ThisWorkspace),
      lastIndexTime |-> StartTime, fileIndex |-> idx, savedVer |-> -1,
      savedBy |-> "updateIndex"] :
        idx \in UNION {{<<a, FileIndexEntry("b.ts", t, 1)>>,
                         <<FileIndexEntry("b.ts", t, 1), a>>} :
                           a \in CorruptEntries, t \in EngineTexts}}

InitCorrupt ==
    /\ disk = [f \in Files |->
                 IF f = "a.ts" THEN File(1, 1, T1)
                 ELSE IF f = "b.ts" THEN File(1, 1, T2)
                 ELSE IF f = "c.PNG" THEN File(1, 1, T1)
                 ELSE Absent]
    /\ now = StartTime
    /\ store \in CorruptSnapshots
    /\ used = NoneUsed
    /\ limit = [fs |-> 0, calls |-> MaxCalls, ticks |-> 1,
                disposes |-> 0, restarts |-> 0, aborts |-> 0, fails |-> 0, broken |-> {},
                files |-> {}]
    /\ EngineIdle
    /\ px = PxOff

NextCorrupt ==
    \/ InitLoad \/ InitLoadStat \/ InitLoadEnd
    \/ \E s \in Searches, q \in EngineQueries : SearchCall(s, q, FALSE)
    \/ \E s \in Searches : SearchEnter(s)
    \/ \E s \in Searches : SearchScanStart(s)
    \/ \E s \in Searches : SearchScanResume(s)
    \/ Tick

SpecCorrupt == InitCorrupt /\ [][NextCorrupt]_vars

(***************************************************************************)
(* SpecPending: the workspace of SpecGate, where a.ts may be rewritten or  *)
(* deleted once; two searches for "aa" that may be aborted at any moment,  *)
(* an enumeration that may fail, and time, so that searches end with       *)
(* results, an error or an abort.                                          *)
(***************************************************************************)
InitPending ==
    /\ disk = [f \in Files |->
                 IF f = "a.ts" THEN File(1, 1, T1)
                 ELSE IF f = "c.PNG" THEN File(1, 1, T1)
                 ELSE Absent]
    /\ now = StartTime
    /\ store = NoCache
    /\ used = NoneUsed
    /\ limit = [fs |-> 1, calls |-> MaxCalls, ticks |-> MaxTicks - 1,
                disposes |-> 0, restarts |-> 0, aborts |-> MaxAborts,
                fails |-> MaxFails, broken |-> {}, files |-> {"a.ts"}]
    /\ EngineIdle
    /\ px = PxOff

NextPending ==
    \/ Building \/ Updating \/ Searching \/ Tick \/ Aborts \/ Failures
    \/ \E s \in Searches, a \in BOOLEAN : SearchCall(s, T1, a)
    \/ \E f \in Files : FsWrite(f, T2, MaxMtime, 1) \/ FsDelete(f)

SpecPending == InitPending /\ [][NextPending]_vars

(***************************************************************************)
(* SpecCase: a workspace of three text files, one more than a batch of the *)
(* scan, with "aa" and "Aa" in them, that never changes; the initial       *)
(* build, searches for "Aa" and "aa", and the case mode switched at any    *)
(* moment.                                                                 *)
(***************************************************************************)
LowerText == <<"a", "a">>
MixedText == <<"A", "a">>

InitCase ==
    /\ disk = [f \in Files |->
                 IF f = "a.ts" THEN File(1, 1, LowerText)
                 ELSE IF f \in {"b.ts", "d.ts"} THEN File(1, 1, MixedText)
                 ELSE Absent]
    /\ now = StartTime
    /\ store = NoCache
    /\ used = NoneUsed
    /\ limit = [fs |-> 0, calls |-> MaxCalls, ticks |-> 0,
                disposes |-> 0, restarts |-> 0, aborts |-> 0, fails |-> 0, broken |-> {},
                files |-> {}]
    /\ EngineIdle
    /\ px = PxOff

NextCase ==
    \/ Building
    \/ \E s \in Searches : SearchEnter(s)
    \/ \E s \in Searches : SearchScanStart(s)
    \/ \E s \in Searches : SearchScanResume(s)
    \/ \E s \in Searches, q \in {LowerText, MixedText} : SearchCall(s, q, FALSE)
    \/ \E cs \in BOOLEAN : setCaseSensitive(cs)

SpecCase == InitCase /\ [][NextCase]_vars

(***************************************************************************)
(* SpecReady: the workspace and the stored snapshots of SpecBroken, with a *)
(* store whose get may throw and whose update may reject, an enumeration   *)
(* that may fail, a.ts deleted or rewritten at any moment, a dispose and   *)
(* one search.  The event loop runs every continuation that is ready, and  *)
(* the promises of the file system and of the store settle: the steps of   *)
(* initialize() and of the full build are weakly fair.                     *)
(***************************************************************************)
InitReady ==
    /\ disk = [f \in Files |->
                 IF f = "a.ts" THEN File(1, 1, T1)
                 ELSE IF f = "b.ts" THEN File(1, 1, T2)
                 ELSE Absent]
    /\ now = StartTime
    /\ store \in {NoCache} \cup BrokenSnapshots
    /\ used = NoneUsed
    /\ \E b \in SUBSET {"get", "update"} :
           limit = [fs |-> 1, calls |-> 1, ticks |-> 0,
                    disposes |-> 1, restarts |-> 0, aborts |-> 0, fails |-> MaxFails,
                    broken |-> b, files |-> {"a.ts"}]
    /\ EngineIdle
    /\ px = PxOff

NextReady ==
    \/ Loading \/ Building \/ Updating \/ Searching \/ Failures \/ dispose
    \/ \E s \in Searches : SearchCall(s, T1, FALSE)
    \/ \E f \in Files : FsWrite(f, T2, MaxMtime, 1) \/ FsDelete(f)

\* the continuations of initialize(), loadIndexFromCache(), updateIndex() and
\* indexBatch() after a promise that settled without an error
ReadySteps ==
    \/ InitLoad \/ InitLoadStat \/ InitLoadEnd \/ InitBuilt
    \/ BuildEnumerated \/ BuildLoop \/ BuildBatchEnd \/ BuildYield \/ BuildSaved
    \/ \E j \in 1..BATCH_SIZE : BuildStat(j)
    \/ \E j \in 1..BATCH_SIZE : BuildRead(j)

SpecReady == InitReady /\ [][NextReady]_vars /\ WF_vars(ReadySteps)

(***************************************************************************)
(* SpecWebview: the modal of SpecModal with its webview: the user types    *)
(* "aa", "bb" or "a" into the search box once the script knows that the    *)
(* index is initialized, at any moment.  Timers fire, messages are         *)
(* delivered and the event loop of the extension runs what is ready: every *)
(* step but the user's is weakly fair.                                     *)
(***************************************************************************)
WebInputs == {T1, T2, <<"a">>}

InitWebview ==
    /\ disk = [f \in Files |->
                 IF f = "a.ts" THEN File(1, 1, T1)
                 ELSE IF f = "c.PNG" THEN File(1, 1, T1)
                 ELSE Absent]
    /\ now = StartTime
    /\ store = NoCache
    /\ used = NoneUsed
    /\ limit = [fs |-> 0, calls |-> MaxInputs + 1, ticks |-> 0,
                disposes |-> 0, restarts |-> 0, aborts |-> 0, fails |-> 0, broken |-> {},
                files |-> {}]
    /\ EngineIdle
    /\ px = PxOff

\* the steps of the extension and of the script
WebviewSteps ==
    \/ Building
    \/ \E s \in Searches : SearchEnter(s)
    \/ \E s \in Searches : SearchScanStart(s)
    \/ \E s \in Searches : SearchScanResume(s)
    \/ \E s \in Searches : performSearchSettled(s) /\ UNCHANGED web
    \/ \E s \in Searches : onSearchMessage(s)
    \/ initializeSearch \/ onSearchInitialized
    \/ searchTimeoutFires \/ onMessage

NextWebview ==
    \/ WebviewSteps
    \/ \E q \in WebInputs : web.searchInitialized /\ onInput(q)

SpecWebview == InitWebview /\ [][NextWebview]_vars /\ WF_vars(WebviewSteps)

(***************************************************************************)
(* SpecFail: the workspace of SpecGate, where the enumeration of the files *)
(* may fail; searches for "aa", file changes and time.                     *)
(***************************************************************************)
InitFail ==
    /\ disk = [f \in Files |->
                 IF f = "a.ts" THEN File(1, 1, T1)
                 ELSE IF f = "c.PNG" THEN File(1, 1, T1)
                 ELSE Absent]
    /\ now = StartTime
    /\ store = NoCache
    /\ used = NoneUsed
    /\ limit = [fs |-> MaxFsOps, calls |-> MaxCalls, ticks |-> MaxTicks,
                disposes |-> 0, restarts |-> 0, aborts |-> 0, fails |-> MaxFails, broken |-> {},
                files |-> {"a.ts"}]
    /\ EngineIdle
    /\ px = PxOff

NextFail ==
    \/ Building \/ Updating \/ Searching \/ Tick \/ Failures
    \/ \E s \in Searches : SearchCall(s, T1, FALSE)
    \/ \E f \in Files : FsWrite(f, T2, MaxMtime, 1) \/ FsDelete(f)

SpecFail == InitFail /\ [][NextFail]_vars

(***************************************************************************)
(* SpecRank: the scan and the ranker applied to an index of two files, in  *)
(* either order, each of one or more short lines: the query at column 0,   *)
(* after a space, after a letter, in a comment, or absent.                 *)
(***************************************************************************)
RankLines ==
    {<<"a", "a">>, <<"b", "a", "a">>, <<" ", "a", "a">>,
     <<"/", "/", "a", "a">>, <<"b">>}

RankTexts == {JoinLines(ls) : ls \in SeqsOfLength(RankLines, 1, MaxRankLines)}

InitRank ==
    /\ disk = [f \in Files |-> Absent]
    /\ now = StartTime
    /\ store = NoCache
    /\ used = NoneUsed
    /\ limit = [fs |-> 0, calls |-> 0, ticks |-> 0,
                disposes |-> 0, restarts |-> 0, aborts |-> 0, fails |-> 0, broken |-> {},
                files |-> {}]
    /\ EngineIdle
    /\ px \in [phase : {"rank"}, text : RankTexts, query : {T1},
               cs : BOOLEAN, out : {<<>>},
               paths : {<<"a.ts", "b.ts">>, <<"b.ts", "a.ts">>},
               text2 : RankTexts, ranked : {<<>>}]

NextRank == RankerCall

SpecRank == InitRank /\ [][NextRank]_vars

(***************************************************************************)
(* SpecIo: the workspace of Spec, where a.ts may be rewritten and deleted  *)
(* at any moment, also between its listing, its stat and its read; b.ts    *)
(* never changes.  Searches for "aa" and time.                             *)
(***************************************************************************)
InitIo ==
    /\ disk = [f \in Files |->
                 IF f = "a.ts" THEN File(1, 1, T1)
                 ELSE IF f = "b.ts" THEN File(1, 1, T2)
                 ELSE IF f = "c.PNG" THEN File(1, 1, T1)
                 ELSE Absent]
    /\ now = StartTime
    /\ store = NoCache
    /\ used = NoneUsed
    /\ limit = [fs |-> MaxFsOps + 1, calls |-> MaxCalls - 1, ticks |-> MaxTicks,
                disposes |-> 0, restarts |-> 0, aborts |-> 0, fails |-> 0, broken |-> {},
                files |-> {"a.ts"}]
    /\ EngineIdle
    /\ px = PxOff

NextIo ==
    \/ Building \/ Updating \/ Searching \/ Tick
    \/ \E s \in Searches : SearchCall(s, T1, FALSE)
    \/ \E f \in Files : FsWrite(f, T2, MaxMtime, 1) \/ FsDelete(f)

SpecIo == InitIo /\ [][NextIo]_vars

(***************************************************************************)
(* SpecEvict: a workspace of six text files, two more than the index       *)
(* holds, with any modification times; the first full build, during which  *)
(* time may pass.                                                          *)
(***************************************************************************)
EvictFiles == {"a.ts", "b.ts", "d.ts", "e.ts", "f.ts", "g.ts"}

InitEvict ==
    /\ \E mtimes \in [EvictFiles -> 1..MaxMtime] :
         disk = [f \in Files |->
                   IF f \in EvictFiles THEN File(mtimes[f], 1, T1) ELSE Absent]
    /\ now = StartTime
    /\ store = NoCache
    /\ used = NoneUsed
    /\ limit = [fs |-> 0, calls |-> 0, ticks |-> MaxTicks - 1,
                disposes |-> 0, restarts |-> 0, aborts |-> 0, fails |-> 0, broken |-> {},
                files |-> {}]
    /\ EngineIdle
    /\ px = PxOff

NextEvict == Building \/ Tick

SpecEvict == InitEvict /\ [][NextEvict]_vars

(***************************************************************************)
(* SpecModal: a modal over the engine of a workspace of one text file and  *)
(* one image; the user types queries of one and of two characters while    *)
(* the engine initializes and while earlier searches are in flight.        *)
(***************************************************************************)
InitModal ==
    /\ disk = [f \in Files |->
                 IF f = "a.ts" THEN File(1, 1, T1)
                 ELSE IF f = "c.PNG" THEN File(1, 1, T1)
                 ELSE Absent]
    /\ now = StartTime
    /\ store = NoCache
    /\ used = NoneUsed
    /\ limit = [fs |-> 0, calls |-> MaxCalls + 1, ticks |-> 0,
                disposes |-> 0, restarts |-> 0, aborts |-> 0, fails |-> 0, broken |-> {},
                files |-> {}]
    /\ EngineIdle
    /\ px = PxOff

NextModal ==
    \/ Building
    \/ \E s \in Searches : SearchEnter(s)
    \/ \E s \in Searches : SearchEnterAborted(s)
    \/ \E s \in Searches : SearchScanStart(s)
    \/ \E s \in Searches : SearchScanResume(s)
    \/ \E s \in Searches, q \in EngineQueries : performSearch(s, q) /\ UNCHANGED web
    \/ \E s \in Searches : performSearchSettled(s) /\ UNCHANGED web

SpecModal == InitModal /\ [][NextModal]_vars

(***************************************************************************)
(* Properties of search() on a query shorter than two characters.          *)
(***************************************************************************)
\* C1: a search whose query is shorter than 2 characters returns the empty
\* result at once, whatever the readiness, staleness and cancellation state:
\* the step that takes the call ends it with no result and leaves the index,
\* lastIndexTime, isSearching, pendingSearches, the full build, the
\* incremental updates and the saved snapshot as they were.
C1_ShortQueryTouchesNothing ==
    [][\A s \in Searches :
         (/\ searches'[s] # searches[s]
          /\ searches'[s].pc # "idle"
          /\ Len(searches'[s].query) < MIN_QUERY_LENGTH)
         => /\ searches'[s].pc = "done"
            /\ searches'[s].outcome = "results"
            /\ searches'[s].result = <<>>
            /\ fileIndex' = fileIndex
            /\ lastIndexTime' = lastIndexTime
            /\ searchState' = searchState
            /\ isIndexing' = isIndexing
            /\ indexingPromise' = indexingPromise
            /\ build' = build
            /\ incr' = incr
            /\ store' = store]_vars

\* a one-character search, with its signal already aborted, has returned while
\* the engine was not ready and its first build was running
C1_Witness ==
    \E s \in Searches :
        /\ searches[s].pc = "done"
        /\ Len(searches[s].query) = 1
        /\ searches[s].aborted
        /\ searches[s].outcome = "results"
        /\ ~searchState.isReady
        /\ build.pc = "batch"

(***************************************************************************)
(* Properties of the matchers.                                             *)
(***************************************************************************)
Folded(str, cs) == IF cs THEN str ELSE ToLowerCase(str)

MatchesOnLine(out, l) == {k \in 1..Len(out) : out[k].startLine = l}

OffsetsIn(line, query) == {i \in 0..Len(line) : OccursAt(line, query, i)}

NewlinesBefore(str, pos) == Cardinality({i \in 1..pos : str[i] = NL})

ColumnOf(str, pos) ==
    LET breaks == {i \in 1..pos : str[i] = NL}
    IN  IF breaks = {} THEN pos ELSE pos - Max(breaks)

\* C8: for a query with a line break, every occurrence of the normalized
\* query in the file's full text is one match tagged multi-line, whose start
\* line is the number of newlines before the occurrence and whose start
\* column is the distance from the last of them, and likewise for its end;
\* there is no other match.  "line1\nline2" in "x\nline1\nline2\ny" is one
\* match from line 2, column 0 to line 3, column 5 in 1-based line numbers.
C8_MultiLinePositions ==
    (px.phase = "done" /\ IsMultiLineQuery(px.query)) =>
        LET text   == Folded(px.text, px.cs)
            query  == NormalizeNewlines(Folded(px.query, px.cs))
            starts == OffsetsIn(text, query)
        IN  /\ Len(px.out) = Cardinality(starts)
            /\ \A m \in starts :
                  \E k \in 1..Len(px.out) :
                      /\ px.out[k].multiLine
                      /\ px.out[k].startLine = NewlinesBefore(text, m)
                      /\ px.out[k].startCol = ColumnOf(text, m)
                      /\ px.out[k].endLine = NewlinesBefore(text, m + Len(query))
                      /\ px.out[k].endCol = ColumnOf(text, m + Len(query))
                      /\ px.out[k].lineNumber = px.out[k].startLine + 1
            /\ (px.text = ExampleText /\ px.query = ExampleQuery) =>
                  /\ Len(px.out) = 1
                  /\ px.out[1].startLine + 1 = 2 /\ px.out[1].startCol = 0
                  /\ px.out[1].endLine + 1 = 3 /\ px.out[1].endCol = 5

\* the example of the claim has been searched and has its one match
C8_Witness ==
    /\ px.phase = "done"
    /\ px.text = ExampleText
    /\ px.query = ExampleQuery
    /\ Len(px.out) = 1
    /\ px.out[1].multiLine

(***************************************************************************)
(* Properties of index maintenance.                                        *)
(***************************************************************************)
InFlight ==
    (IF build.pc # "idle" THEN 1 ELSE 0)
    + Cardinality({o \in Owners : incr[o].pc # "idle"})

\* C9: at any time at most one full build or incremental update is in
\* flight, whichever of initialization, the search-time freshness gate and
\* the background refresh started it.
C9_SingleFlight == InFlight <= 1

Published == build.pc = "loop" /\ build'.pc = "save"

\* C10: a full build leaves the live index alone until all its batches are
\* done, and then replaces it in one step by the index it has built: every
\* step of a build either publishes, after every enumerated file has been
\* processed, or does not change the live index.
C10_AtomicPublish ==
    [][build' # build =>
         IF Published
         THEN /\ Range(build.files) \subseteq build.processed
              /\ fileIndex' = build.newIndex
         ELSE fileIndex' = fileIndex]_vars

\* a search is between two batches of its scan, over its snapshot of the old
\* index, while a full build has part of the new index
C10_Witness ==
    \E s \in Searches :
        /\ searches[s].pc = "yield"
        /\ Len(searches[s].fileEntries) > 0
        /\ build.pc = "batch"
        /\ Len(build.newIndex) > 0
        /\ Len(build.newIndex) < Len(build.files)
        /\ fileIndex = searches[s].fileEntries

\* the load of a snapshot answered, and no file changed since it was saved
LoadedUnchanged ==
    /\ hist.loaded # "none"
    /\ init.cached.present
    /\ init.cached.savedVer = used.fs

InStepWithDisk(index) ==
    \A i \in 1..Len(index) :
        /\ disk[index[i].path].exists
        /\ disk[index[i].path].mtime = index[i].lastModified

\* C6 as stated, for the snapshot a full build saves: saved by one engine and
\* loaded by a fresh engine of the same workspace (one that stays alive while
\* it loads), no file changed in between and within the maximum cache age, it
\* is accepted and gives the index the snapshot's paths, lines and
\* lastModified.
C6_RoundTripAsStated ==
    (/\ LoadedUnchanged
     /\ init.cached.savedBy = "updateIndex"
     /\ used.restarts > 0
     /\ ~hist.loadDisposed) =>
        /\ hist.loaded = "accepted"
        /\ hist.loadedIndex = init.cached.fileIndex

\* C6, amended: the same, for a snapshot whose every entry carries the
\* modification time its file has on disk, loaded by an engine that is not
\* disposed before the load answers.
C6_RoundTrip ==
    (LoadedUnchanged /\ InStepWithDisk(init.cached.fileIndex) /\ ~hist.loadDisposed) =>
        /\ hist.loaded = "accepted"
        /\ hist.loadedIndex = init.cached.fileIndex

\* after a reload the fresh engine has loaded the two entries that the engine
\* before it built and saved
C6_Witness ==
    /\ used.restarts = 1
    /\ LoadedUnchanged
    /\ init.cached.lastIndexTime >= StartTime
    /\ hist.loaded = "accepted"
    /\ Len(hist.loadedIndex) = 2
    /\ hist.loadedIndex = init.cached.fileIndex

\* C7: a cache load whose stored fingerprint differs from the engine's
\* answers "not usable", whatever the snapshot's age, version and entries,
\* and puts no entry into the index: the step that reads such a snapshot
\* goes on to the full build and leaves the index and lastIndexTime alone.
C7_FingerprintMismatchRejected ==
    [][(/\ init.pc = "start" /\ init'.pc # "start"
        /\ store.present
        /\ store.workspaceHash # calculateWorkspaceHash(ThisWorkspace))
       => /\ hist'.loaded = "rejected"
          /\ init'.pc = "awaitBuild"
          /\ build'.pc # "idle"
          /\ fileIndex' = fileIndex
          /\ lastIndexTime' = lastIndexTime]_vars

\* a snapshot of another workspace, otherwise acceptable in version, age and
\* entries, has been turned down and the full build is running
C7_Witness ==
    /\ hist.loaded = "rejected"
    /\ init.pc = "awaitBuild"
    /\ store.present
    /\ store.workspaceHash # calculateWorkspaceHash(ThisWorkspace)
    /\ store.version = CACHE_VERSION
    /\ now - store.lastIndexTime <= MAX_CACHE_AGE
    /\ InStepWithDisk(store.fileIndex)
    /\ fileIndex = <<>>

\* C2 (for an update that started after the deletion): a search called after
\* an incremental update that started after the last deletion has run its
\* removal pass returns no match from a file that is not on disk.
C2_DeletedFileNotFound ==
    \A s \in Searches :
        (/\ searches[s].pc = "done"
         /\ searches[s].outcome = "results"
         /\ searches[s].updatedAt = used.fs)
        => \A k \in 1..Len(searches[s].result) :
               disk[searches[s].result[k].path].exists

\* C3 (for changes that advance the modification time): once an update that
\* started after the last file change has completed, every entry of a file
\* that still exists holds the file's current lines.
C3_UpdateReflectsContent ==
    hist.updateDoneVer = used.fs =>
        \A i \in 1..Len(fileIndex) :
            LET e == fileIndex[i]
            IN  (disk[e.path].exists /\ disk[e.path].mtime > e.lastModified)
                => e.lines = SplitLines(disk[e.path].text)

\* C4: two full builds with no file change from the start of the first to
\* the end of the second produce the same paths and the same lines, for a
\* workspace of any size.
C4_FullBuildIdempotent ==
    (hist.prevStartVer # -1 /\ hist.prevStartVer = hist.fullEndVer)
        => hist.prevContent = hist.fullContent

(***************************************************************************)
(* Properties of cancellation.                                             *)
(***************************************************************************)
\* C11 as stated: a search whose signal is aborted at any moment while it is
\* in progress, in its freshness gate or in its scan, ends without a result
\* list.
C11_AbortAnyTimeNoResults ==
    \A s \in Searches :
        (searches[s].pc = "done" /\ searches[s].abortAt \in {"gate", "scan", "last"})
        => searches[s].outcome # "results"

\* C11, amended: a search whose signal is aborted while it waits in its
\* freshness gate, or in its scan before the last batch has been scanned,
\* ends with the cancellation outcome and returns nothing: the matches it
\* had collected are dropped.
C11_AbortDiscardsResults ==
    \A s \in Searches :
        (searches[s].pc = "done" /\ searches[s].abortAt \in {"gate", "scan"})
        => /\ searches[s].outcome = "aborted"
           /\ searches[s].result = <<>>

\* a search was aborted between two batches of its scan, when it had
\* collected a match, and has ended with the cancellation outcome
C11_Witness ==
    \E s \in Searches :
        /\ searches[s].pc = "done"
        /\ searches[s].abortAt = "scan"
        /\ searches[s].outcome = "aborted"
        /\ searches[s].dropped > 0

(***************************************************************************)
(* Properties of disposal.                                                 *)
(***************************************************************************)
\* C12: once dispose() has been called the index is empty, and it stays
\* empty whatever was in flight at the time: a full build, an incremental
\* update or a cache load that completes afterwards.
C12_DisposedIndexEmpty == disposed => fileIndex = <<>>

\* C13: once dispose() has been called the engine does nothing more: no
\* step starts a full build or an incremental update (each begins with the
\* enumeration of the files), not even on behalf of a search called after
\* the disposal, and no step writes a snapshot to workspace storage.
C13_DisposedDoesNothing ==
    [][disposed =>
         /\ (build.pc = "idle" => build'.pc = "idle")
         /\ \A o \in Owners : incr[o].pc = "idle" => incr'[o].pc = "idle"
         /\ store' = store]_vars

(***************************************************************************)
(* Properties of the freshness gate.                                       *)
(***************************************************************************)
\* C14: the step in which a search runs its freshness gate, before any scan,
\* does one of three things.  If the index is empty or older than the
\* full-rebuild age, a full build is in flight after it and the search waits
\* for it.  Otherwise, if the index is older than the incremental age, the
\* search starts one incremental update of its own and waits for it.
\* Otherwise nothing is started, the index is as it was and the search goes
\* on to scan.  A search leaves its wait only when the build has ended,
\* respectively in the step in which its update returns.
C14_FreshnessGate ==
    [][\A s \in Searches :
         /\ (searches[s].pc = "enter" /\ searches'[s].pc # "enter") =>
                IF Len(fileIndex) = 0 \/ now - lastIndexTime > STALE_FULL_AGE
                THEN /\ searches'[s].pc = "awaitBuild"
                     /\ build'.pc # "idle"
                     /\ incr' = incr
                     /\ fileIndex' = fileIndex
                ELSE IF now - lastIndexTime > STALE_INCREMENTAL_AGE
                THEN /\ searches'[s].pc = "awaitIncr"
                     /\ incr[s].pc = "idle"
                     /\ incr'[s].pc = "enum"
                     /\ \A o \in Owners \ {s} : incr'[o] = incr[o]
                     /\ build' = build
                     /\ fileIndex' = fileIndex
                ELSE /\ searches'[s].pc = "scanStart"
                     /\ build' = build
                     /\ incr' = incr
                     /\ fileIndex' = fileIndex
         /\ (searches[s].pc = "awaitBuild" /\ searches'[s].pc # "awaitBuild") =>
                /\ build.pc = "idle"
                /\ ~isIndexing
                /\ searches'[s].pc = "scanStart"
         /\ (searches[s].pc = "awaitIncr" /\ searches'[s].pc # "awaitIncr") =>
                /\ incr[s].pc # "idle"
                /\ incr'[s].pc = "idle"
                /\ searches'[s].pc = "scanStart"
         /\ (searches[s].pc # "scanStart" /\ searches'[s].pc = "scanStart") =>
                searches[s].pc \in {"enter", "awaitBuild", "awaitIncr"}]_vars

\* one search waits for the incremental update its gate started when the
\* index had passed the incremental age, and another, whose gate ran when
\* the index had passed the full-rebuild age, waits for the full build
C14_Witness ==
    \E s1, s2 \in Searches :
        /\ searches[s1].pc = "awaitIncr"
        /\ incr[s1].pc # "idle"
        /\ searches[s2].pc = "awaitBuild"
        /\ searches[s2].starter
        /\ build.owner = s2
        /\ Len(fileIndex) > 0
        /\ now - lastIndexTime > STALE_FULL_AGE

(***************************************************************************)
(* Properties of the cache load at initialization.                         *)
(***************************************************************************)
\* the entries of a stored index whose file exists with the stored mtime
UpToDate(idx) ==
    SelectSeq(idx, LAMBDA e : disk[e.path].exists
                              /\ disk[e.path].mtime = e.lastModified)

\* a snapshot of the engine's format and workspace, at least 80% up to date
MatchesEngine(c) ==
    /\ c.present
    /\ c.version = CACHE_VERSION
    /\ c.workspaceHash = calculateWorkspaceHash(ThisWorkspace)
    /\ Len(UpToDate(c.fileIndex)) * 100 >= Len(c.fileIndex) * 80

\* the step in which loadIndexFromCache answers initialize()
LoadAnswers == hist.loaded = "none" /\ hist'.loaded # "none"

\* what initialize() does with the answer
LoadOutcome(accepted) ==
    IF accepted
    THEN /\ hist'.loaded = "accepted"
         /\ fileIndex' = UpToDate(store.fileIndex)
         /\ init'.pc = "done"
         /\ build'.pc = "idle"
    ELSE /\ hist'.loaded = "rejected"
         /\ init'.pc = "awaitBuild"
         /\ build'.pc = "enum"

\* C15 as stated: the stored snapshot is accepted, and its up-to-date entries
\* are the index without a full build, if and only if its format version and
\* workspace fingerprint are the engine's, its age is under the maximum cache
\* age, and at least 80% of its entries are up to date; in every other case
\* the load answers "not usable" and initialization starts a full build.
C15_AcceptedIffUnderMaxAge ==
    [][LoadAnswers =>
         LoadOutcome(/\ MatchesEngine(store)
                     /\ now - store.lastIndexTime < MAX_CACHE_AGE)]_vars

\* C15, amended: the same with "its age is not over the maximum cache age".
C15_AcceptedIffUsable ==
    [][LoadAnswers =>
         LoadOutcome(/\ MatchesEngine(store)
                     /\ now - store.lastIndexTime <= MAX_CACHE_AGE)]_vars

\* a snapshot exactly as old as the maximum cache age, with four of its five
\* entries up to date, has been accepted, and no build has run
C15_Witness ==
    /\ hist.loaded = "accepted"
    /\ init.cached.lastIndexTime = now - MAX_CACHE_AGE
    /\ Len(init.cached.fileIndex) = 5
    /\ Len(fileIndex) = 4
    /\ init.pc = "done"
    /\ hist.fullEndVer = -1
    /\ store = init.cached

(***************************************************************************)
(* Properties of a failed enumeration.                                     *)
(***************************************************************************)
\* the step in which the enumeration of a full build fails (no other step
\* takes a build from its enumeration to its end)
BuildFails == build.pc = "enum" /\ build'.pc = "idle"

\* C16: the step that starts a full build leaves the live index and
\* lastIndexTime as they are; when the enumeration of a full build that the
\* freshness gate of a search started fails, the step in which it fails leaves the live index, lastIndexTime and the stored snapshot as
\* they are and ends the build; and each search whose freshness gate awaits
\* that build ends, in its next step, with an error and no result, without
\* starting another build or touching the index.
C16_EnumerationFailureReported ==
    [][\A s \in Searches :
         /\ (build.pc = "idle" /\ build'.pc = "enum") =>
                /\ fileIndex' = fileIndex
                /\ lastIndexTime' = lastIndexTime
         /\ (BuildFails /\ build.owner \in Searches) =>
                /\ fileIndex' = fileIndex
                /\ lastIndexTime' = lastIndexTime
                /\ store' = store
                /\ ~isIndexing'
                /\ searches' = searches
                /\ indexingPromise' = "rejected"
                /\ searches[s].pc = "awaitBuild" => s \in Range(mq')
         /\ (/\ searches[s].pc = "awaitBuild"
             /\ searches'[s] # searches[s]
             /\ indexingPromise = "rejected") =>
                /\ searches'[s].pc = "done"
                /\ searches'[s].outcome = "error"
                /\ searches'[s].result = <<>>
                /\ build' = build
                /\ build.pc = "idle"
                /\ fileIndex' = fileIndex
                /\ lastIndexTime' = lastIndexTime]_vars

\* the search that started a full build over an index past the full-rebuild
\* age has ended with the error of the failed enumeration; the index still
\* has its entries and its old lastIndexTime
C16_Witness ==
    \E s \in Searches :
        /\ searches[s].pc = "done"
        /\ searches[s].starter
        /\ searches[s].outcome = "error"
        /\ Len(fileIndex) > 0
        /\ now - lastIndexTime > STALE_FULL_AGE
        /\ build.pc = "idle"

\* C17: after a full build has failed, a search whose freshness gate finds
\* the index empty or past the full-rebuild age, with no build in flight,
\* starts a new build.
C17_FailedBuildIsRetried ==
    [][\A s \in Searches :
         (/\ searches[s].pc = "enter" /\ searches'[s].pc # "enter"
          /\ hist.buildFailed
          /\ build.pc = "idle"
          /\ (Len(fileIndex) = 0 \/ now - lastIndexTime > STALE_FULL_AGE))
         => build'.pc = "enum"]_vars

(***************************************************************************)
(* Properties of the ranker.                                               *)
(***************************************************************************)
\* the characters of the labels that occur, in code-point order
CharCode(c) ==
    IF c = "." THEN 46 ELSE IF c = ":" THEN 58 ELSE IF c = "a" THEN 97
    ELSE IF c = "b" THEN 98 ELSE IF c = "s" THEN 115 ELSE 116

FileNameCodes(path) ==
    IF path = "a.ts" THEN <<97, 46, 116, 115>> ELSE <<98, 46, 116, 115>>

RECURSIVE DigitCodes(_)
DigitCodes(n) ==
    IF n < 10 THEN <<48 + n>> ELSE DigitCodes(n \div 10) \o <<48 + (n % 10)>>

\* the label `fileName:lineNumber` of a match, as character codes
LabelOf(r) == FileNameCodes(r.path) \o <<CharCode(":")>> \o DigitCodes(r.lineNumber)

RECURSIVE LexLeq(_, _)
LexLeq(x, y) ==
    IF Len(x) = 0 THEN TRUE
    ELSE IF Len(y) = 0 THEN FALSE
    ELSE IF x[1] # y[1] THEN x[1] < y[1]
    ELSE LexLeq(Tail(x), Tail(y))

\* the place of a match in the order in which the scan found the matches
FoundAt(r) == CHOOSE k \in 1..Len(px.out) : px.out[k] = r

PlacesOf(list, path) == {k \in 1..Len(list) : list[k].path = path}

BestScore(list, path) == Max({list[k].score : k \in PlacesOf(list, path)})

\* where the scan found the first of the best matches of a file
BestFoundAt(path) ==
    Min({k \in PlacesOf(px.out, path) : px.out[k].score = BestScore(px.out, path)})

\* C19: the ranked list holds every match the scan found exactly once and
\* nothing else; the matches of one file are contiguous, in descending
\* score; the file groups come in the order of their best matches in the
\* score-sorted list (higher best score first, on a tie the file whose best
\* match was found first); so the first result has the highest score of all.
C19_GroupedPermutation ==
    px.phase = "ranked" =>
        LET raw    == px.out
            ranked == px.ranked
            n      == Len(ranked)
        IN  /\ n = Len(raw)
            /\ \A k \in 1..Len(raw) :
                   Cardinality({i \in 1..n : ranked[i] = raw[k]})
                       = Cardinality({i \in 1..Len(raw) : raw[i] = raw[k]})
            /\ \A i, j, k \in 1..n :
                   (i < k /\ k < j /\ ranked[i].path = ranked[j].path)
                       => ranked[k].path = ranked[i].path
            /\ \A i, j \in 1..n :
                   (i < j /\ ranked[i].path = ranked[j].path)
                       => ranked[i].score >= ranked[j].score
            /\ \A i, j \in 1..n :
                   (i < j /\ ranked[i].path # ranked[j].path) =>
                       LET f == ranked[i].path
                           g == ranked[j].path
                       IN  \/ BestScore(raw, f) > BestScore(raw, g)
                           \/ /\ BestScore(raw, f) = BestScore(raw, g)
                              /\ BestFoundAt(f) < BestFoundAt(g)
            /\ n > 0 => \A k \in 1..n : ranked[1].score >= ranked[k].score

\* the score-sorted list interleaved the two files (105 of a.ts, 95 of b.ts,
\* 75 of a.ts) and the ranked list has the two matches of a.ts together
C19_Witness ==
    /\ px.phase = "ranked"
    /\ px.paths = <<"a.ts", "b.ts">>
    /\ Len(px.ranked) = 3
    /\ px.ranked[1].path = "a.ts" /\ px.ranked[1].score = 105
    /\ px.ranked[2].path = "a.ts" /\ px.ranked[2].score = 75
    /\ px.ranked[3].path = "b.ts" /\ px.ranked[3].score = 95

(***************************************************************************)
(* Properties of the score.                                                *)
(***************************************************************************)
\* the position bonus of a match that starts at column col of a line
BonusAt(lineText, col) ==
    IF col = 0 THEN 30
    ELSE IF IsWhitespace(lineText[col]) THEN 20 ELSE 0

\* C20: the score of every single-line match is 50, plus 30 if that match
\* starts at column 0, else plus 20 if the character before that match's
\* start column is whitespace, plus 10 if the line has fewer than 10 words,
\* plus 15 if the trimmed line does not start with '//' or '/*'.
C20_ScoreOfEachMatch ==
    px.phase = "done" =>
        \A k \in 1..Len(px.out) :
            ~px.out[k].multiLine =>
                LET lineText  == SplitLines(px.text)[px.out[k].startLine + 1]
                    trimmed   == Trim(lineText)
                    isComment == \/ StartsWith(trimmed, <<"/", "/">>)
                                 \/ StartsWith(trimmed, <<"/", "*">>)
                IN  px.out[k].score =
                        50 + BonusAt(lineText, px.out[k].startCol)
                           + (IF WordCount(lineText) < 10 THEN 10 ELSE 0)
                           + (IF isComment THEN 0 ELSE 15)

(***************************************************************************)
(* Properties of the size of the index.                                    *)
(***************************************************************************)
\* C21: the live index never holds more than MAX_INDEX_SIZE entries.
C21_IndexBounded == Len(fileIndex) <= MAX_INDEX_SIZE

(***************************************************************************)
(* Properties of the modal.                                                *)
(***************************************************************************)
\* C22: a call of performSearch aborts the search of the call before, so
\* that every search in flight other than the most recently started one has
\* an aborted signal; and a searchResults or searchError message is posted
\* only for the search that is the most recently started one when it is
\* posted, in whatever order the searches complete.
C22_OnlyLatestPosted ==
    [][/\ \A m \in modal'.posted \ modal.posted :
              m.searchId = modal'.currentSearchId
       /\ \A s \in Searches :
              (/\ modal'.pending[s]
               /\ searches'[s].pc \notin {"idle", "done"}
               /\ modal'.idOf[s] # modal'.currentSearchId)
                  => searches'[s].aborted]_vars

\* the first search was overtaken by two later ones and its outcome dropped;
\* the outcome of the third was posted
C22_Witness ==
    /\ modal.currentSearchId = 3
    /\ 1 \in modal.ignored
    /\ \E m \in modal.posted : m.searchId = 3 /\ m.type = "searchResults"
    /\ \A m \in modal.posted : m.searchId # 1

(***************************************************************************)
(* Properties of per-file failures.                                        *)
(***************************************************************************)
\* the text files that exist and that this specification never changes
SteadyFiles == {f \in Range(TextFiles(disk)) : f \notin limit.files}

\* the entry of file f in index idx, or <<>> when it has none
EntryOf(idx, f) == IF MapHas(idx, f) THEN <<MapGet(idx, f)>> ELSE <<>>

\* slot j of the build's batch ends in this step on a failed stat or open
SlotFails(j) ==
    /\ build.pc = "batch"
    /\ j \in 1..Len(build.slots)
    /\ build.slots[j].st \in {"stat", "read"}
    /\ build'.pc \in {"batch", "batchEnd"}
    /\ build'.slots[j].st = "done"
    /\ ~disk[build.slots[j].file].exists

\* the update called by o goes past a file whose stat or open fails
IncrFileFails(o) ==
    /\ incr[o].pc \in {"stat", "read"}
    /\ incr'[o] # incr[o]
    /\ ~disk[incr[o].files[incr[o].k]].exists

\* C23: a stat or read failure of one file is absorbed.  In a full build the
\* failing file gets no entry, the build goes on (it stays in flight and is
\* not marked failed), and the index it publishes holds, for every file that
\* did not fail, the entry made of that file's content.  In an incremental
\* update the failing file's entry is left as it was, the update goes on to
\* its next file or to its end, and when it has run through, every file that
\* did not fail has the entry made of its content.
C23_PerFileFailureAbsorbed ==
    [][/\ \A j \in 1..BATCH_SIZE :
              SlotFails(j) =>
                  /\ build'.newIndex = build.newIndex
                  /\ isIndexing' /\ hist'.buildFailed = hist.buildFailed
                  /\ fileIndex' = fileIndex
                  /\ \A i \in 1..Len(build.slots) :
                         i # j => build'.slots[i] = build.slots[i]
       /\ (build.pc = "loop" /\ build'.pc = "save") =>
              \A f \in SteadyFiles :
                  EntryOf(fileIndex', f) =
                      <<FileIndexEntry(f, disk[f].text, disk[f].mtime)>>
       /\ \A o \in Owners :
              IncrFileFails(o) =>
                  /\ EntryOf(fileIndex', incr[o].files[incr[o].k])
                         = EntryOf(fileIndex, incr[o].files[incr[o].k])
                  /\ incr'[o].pc \in {"stat", "save", "idle"}
                  /\ incr'[o].pc = "stat" => incr'[o].k = incr[o].k + 1
                  /\ \A f \in SteadyFiles :
                         EntryOf(fileIndex', f) =
                             <<FileIndexEntry(f, disk[f].text, disk[f].mtime)>>]_vars

\* a full build that listed a.ts and could neither stat nor read it has
\* published an index with b.ts and without a.ts
C23_Witness ==
    /\ build.pc = "save"
    /\ "a.ts" \in Range(build.files)
    /\ ~MapHas(fileIndex, "a.ts")
    /\ EntryOf(fileIndex, "b.ts") = <<FileIndexEntry("b.ts", T2, 1)>>

(***************************************************************************)
(* Properties of a rejected load.                                          *)
(***************************************************************************)
\* C24: when load has answered that the snapshot is not usable and the full
\* build of initialize() has been started, the index holds no entry and
\* lastIndexTime has not been set: the build starts from an empty store.
C24_RejectedLoadLeavesNothing ==
    (hist.loaded = "rejected" /\ init.pc = "awaitBuild" /\ build.pc = "enum") =>
        /\ fileIndex = <<>>
        /\ lastIndexTime = NewEngine.lastIndexTime

(***************************************************************************)
(* Properties of the filters.                                              *)
(***************************************************************************)
\* the extension of a path, lowercased, is not in the excluded set
ExtensionPasses(f) == LowerExt(ExtName(f)) \notin EXCLUDED_EXTENSIONS

\* the entries of an index all belong to files that pass the extension filter
ExtensionsPass(idx) == \A i \in 1..Len(idx) : ExtensionPasses(idx[i].path)

\* C25: every entry of the index was created from a file that passed the
\* filters when it was indexed.  No index, live, interim or stored, holds an
\* entry of a file with an excluded extension, whatever the case of the
\* extension; and an entry that appears or changes in the live or the interim
\* index is either taken over from an index that held it (the old index, the
\* finished build, the snapshot being loaded) or is made in that step from a
\* file whose stat, taken for this indexing, gave a size within the
\* maximum.
C25_EntriesPassedFilters ==
    [][/\ ExtensionsPass(fileIndex') /\ ExtensionsPass(build'.newIndex)
       /\ ExtensionsPass(store'.fileIndex)
       /\ \A f \in Files :
              (EntryOf(fileIndex', f) # <<>>
                   /\ EntryOf(fileIndex', f) # EntryOf(fileIndex, f)) =>
                  \/ EntryOf(fileIndex', f) = EntryOf(build.newIndex, f)
                  \/ /\ init.pc = "loadStat"
                     /\ EntryOf(fileIndex', f) = EntryOf(init.cached.fileIndex, f)
                  \/ \E o \in Owners :
                         /\ incr[o].pc = "read"
                         /\ incr[o].files[incr[o].k] = f
                         /\ incr[o].size <= MAX_FILE_SIZE
                         /\ ExtensionPasses(f)
       /\ \A f \in Files :
              (EntryOf(build'.newIndex, f) # <<>>
                   /\ EntryOf(build'.newIndex, f) # EntryOf(build.newIndex, f)) =>
                  \/ EntryOf(build'.newIndex, f) = EntryOf(fileIndex, f)
                  \/ \E j \in 1..Len(build.slots) :
                         /\ build.slots[j].file = f
                         /\ build.slots[j].st = "read"
                         /\ build.slots[j].size <= MAX_FILE_SIZE
                         /\ ExtensionPasses(f)]_vars

\* a.ts, grown over the maximum size after it was indexed, has been passed
\* over by a later update and keeps its old entry, next to b.ts; c.PNG, which
\* exists, has none
C25_Witness ==
    /\ disk["a.ts"].exists /\ disk["a.ts"].size > MAX_FILE_SIZE
    /\ disk["a.ts"].mtime > 1
    /\ disk["c.PNG"].exists
    /\ hist.incrDoneVer = used.fs /\ used.fs > 0
    /\ MapKeys(fileIndex) = {"a.ts", "b.ts"}
    /\ MapGet(fileIndex, "a.ts").lastModified = 1

(***************************************************************************)
(* Properties of the eviction.                                             *)
(***************************************************************************)
\* the file whose entry the build inserts in this step, if it inserts one
Inserts(j) ==
    /\ build.pc = "batch"
    /\ j \in 1..Len(build.slots)
    /\ build.slots[j].st = "read"
    /\ build'.pc \in {"batch", "batchEnd"}
    /\ build'.slots[j].st = "done"
    /\ disk[build.slots[j].file].exists

\* lastModified of path p in the interim index extended by the entry of the
\* file of slot j
InterimAge(j, p) ==
    IF p = build.slots[j].file THEN build.slots[j].mtime
    ELSE MapGet(build.newIndex, p).lastModified

IncrDecides(o) ==
    /\ incr[o].pc \in {"enum", "stat", "read"}
    /\ incr'[o].pc \in {"save", "idle"}
    /\ ~disposed

\* C27: an incremental update writes the cache if and only if it has changed
\* the index: when it has run through its files and its removal pass, it
\* goes on to save exactly when one of its steps added, replaced or removed
\* an entry, and then the snapshot is written in that step; else the stored
\* snapshot is left as it is.
C27_SavesIffChanged ==
    [][\A o \in Owners :
          IncrDecides(o) =>
              LET changed == incr[o].touched \/ fileIndex' # fileIndex
              IN  /\ incr'[o].pc = "save" <=> changed
                  /\ ~changed => store' = store
                  /\ changed => store'.fileIndex = fileIndex']_vars


\* C28: the refresh that a successful cache load schedules starts at most
\* once in an engine's life, and only in the timer's callback, when the
\* timer is armed and due and the engine is neither disposed nor indexing;
\* a disposed engine has no armed timer, so after dispose() it never starts
C28_RefreshOnceUnlessDisposedOrBuilding ==
    /\ [](hist.timerRuns <= 1)
    /\ [](disposed => ~scheduledTimeouts.armed)
    /\ [][incr["timer"].pc = "idle" /\ incr'["timer"].pc # "idle" =>
            /\ scheduledTimeouts.armed /\ now >= scheduledTimeouts.due
            /\ ~scheduledTimeouts'.armed
            /\ hist.loaded = "accepted"
            /\ hist.timerRuns = 0
            /\ ~disposed /\ ~isIndexing]_vars

\* the refresh has started once and has run to its end
C28_Witness ==
    /\ hist.timerRuns = 1
    /\ incr["timer"].pc = "idle"
    /\ ~scheduledTimeouts.armed
    /\ ~disposed

\* C29: when the progress callback throws, the engine clears it in the same
\* step and never calls it again; the build or search that reported goes on:
\* no build fails and no search ends in an error
C29_ThrowingSinkIsDropped ==
    /\ [](~sink.calledAfterThrow)
    /\ [](sink.threw => sink.progressCallback = "undefined")
    /\ [](~hist.buildFailed /\ \A s \in Searches : searches[s].outcome # "error")

\* the callback has thrown, a full build has published its index of two
\* files all the same, and a search has returned the match in a.ts
C29_Witness ==
    /\ sink.threw
    /\ hist.fullStartVer >= 0
    /\ \E s \in Searches :
           /\ searches[s].pc = "done" /\ searches[s].outcome = "results"
           /\ Len(searches[s].result) = 1
    /\ Len(fileIndex) = 2

\* a call of saveIndexToCache returns to the build or update that made it
SaveSettles ==
    \/ build.pc = "save" /\ build'.pc = "idle"
    \/ \E o \in Owners : incr[o].pc = "save" /\ incr'[o].pc = "idle"

\* C30: a failure of workspaceState fails nothing. When get throws, the load
\* is a cache miss: initialize() loads nothing, goes on to a full build, and
\* ends ready with the index that build published. When update rejects, the
\* store keeps what it held, the index and lastIndexTime are what the build
\* set when it published and stay so when the save returns, no build fails
\* and no search ends in an error
C30_StoreFailureFailsNothing ==
    /\ [](~hist.buildFailed /\ \A s \in Searches : searches[s].outcome # "error")
    /\ [](GetThrows =>
            /\ hist.loaded # "accepted"
            /\ (init.pc = "done" => searchState.isReady /\ hist.fullStartVer >= 0))
    /\ [][GetThrows /\ init.pc = "start" /\ init'.pc # "start" =>
            /\ init'.pc = "awaitBuild" /\ build'.pc = "enum"
            /\ fileIndex' = fileIndex /\ lastIndexTime' = lastIndexTime]_vars
    /\ [][UpdateRejected => store' = store]_vars
    /\ [][SaveSettles => fileIndex' = fileIndex /\ lastIndexTime' = lastIndexTime]_vars
    /\ [][build.pc = "loop" /\ build'.pc = "save" =>
            fileIndex' = build.newIndex /\ lastIndexTime' = now]_vars

\* get threw and the update was rejected: the old snapshot is still in the
\* store, the engine is ready with the two files its full build indexed, and
\* a search has returned the match in a.ts
C30_Witness ==
    /\ limit.broken = {"get", "update"}
    /\ store \in BrokenSnapshots
    /\ searchState.isReady /\ init.pc = "done"
    /\ Len(fileIndex) = 2
    /\ lastIndexTime >= StartTime
    /\ \E s \in Searches :
           /\ searches[s].pc = "done" /\ searches[s].outcome = "results"
           /\ Len(searches[s].result) = 1

(***************************************************************************)
(* Properties of the matchers, continued.                                  *)
(***************************************************************************)
\* the lines of a text under any line-break convention: CRLF, CR and LF all
\* end a line
LogicalLines(s) == SplitLines(NormalizeNewlines(s))

\* the lines `part` are consecutive lines of `whole`
ConsecutiveLinesOf(part, whole) ==
    \E k \in 0..(Len(whole) - Len(part)) :
        \A i \in 1..Len(part) : whole[k + i] = part[i]

\* C31: a multi-line query whose lines are consecutive lines of the file
\* yields a match, whichever line breaks the file and the query use
C31_LineBreakIndependent ==
    (/\ px.phase = "done"
     /\ IsMultiLineQuery(px.query)
     /\ ConsecutiveLinesOf(LogicalLines(px.query), LogicalLines(px.text)))
    => px.out # <<>>

\* the text of `line` at column col equals the query in the case mode cs:
\* exactly when cs, else ignoring case
EqualAt(line, col, query, cs) ==
    /\ col >= 0 /\ col + Len(query) <= Len(line)
    /\ LET there == SubSeq(line, col + 1, col + Len(query))
       IN  IF cs THEN there = query ELSE ToLowerCase(there) = ToLowerCase(query)

\* C32: for a query without line breaks, a match is reported at (line, col)
\* only if the line's text at col equals the query, exactly when the search
\* is case sensitive and ignoring case when it is not; the range of every
\* match is on one line and as long as the query
C32_MatchEqualsQueryInCaseMode ==
    (px.phase = "done" /\ ~IsMultiLineQuery(px.query)) =>
        LET lines == SplitLines(px.text)
        IN  \A k \in 1..Len(px.out) :
                /\ px.out[k].startLine \in 0..(Len(lines) - 1)
                /\ px.out[k].endLine = px.out[k].startLine
                /\ px.out[k].endCol = px.out[k].startCol + Len(px.query)
                /\ EqualAt(lines[px.out[k].startLine + 1], px.out[k].startCol,
                           px.query, px.cs)

\* the text a file of the workspace of SpecIo had while its modification
\* time was mtime: a.ts is created as T1 at time 1 and only ever rewritten as
\* T2 at time MaxMtime, the other files never change
IoContentAt(f, mtime) ==
    IF f = "a.ts" /\ mtime = 1 THEN T1 ELSE T2

\* C33: the lines of every index entry are the content its file had at the
\* modification time recorded in the entry, also when the file is rewritten
\* between the stat and the read of the step that indexes it
C33_EntryIsContentAtItsMtime ==
    \A k \in 1..Len(fileIndex) :
        fileIndex[k].lines = SplitLines(IoContentAt(fileIndex[k].path,
                                                    fileIndex[k].lastModified))

\* the entries of an index whose scan throws
ThrowingEntries(idx) ==
    {k \in 1..Len(idx) : \E i \in 1..Len(idx[k].lines) : LineThrows(idx[k].lines[i])}

\* C34: when the scan of one index entry throws, the search still returns
\* results; no match of that file is among them, and the matches of every
\* other entry are
C34_ThrowingEntrySkipped ==
    \A s \in Searches :
        (/\ searches[s].pc = "done"
         /\ ~QueryTooShort(searches[s].query)
         /\ ThrowingEntries(fileIndex) # {}) =>
            /\ searches[s].outcome = "results"
            /\ \A k \in 1..Len(fileIndex) :
                   IF k \in ThrowingEntries(fileIndex)
                   THEN \A r \in Range(searches[s].result) :
                            r.path # fileIndex[k].path
                   ELSE Range(ScanEntry(fileIndex[k], searches[s].query,
                                        searches[s].query, caseSensitive, <<>>))
                            \subseteq Range(searches[s].result)

\* C35: whenever pendingSearches > 0, isSearching is true
C35_SearchingWhilePending ==
    searchState.pendingSearches > 0 => searchState.isSearching

\* the search calls that have passed the readiness gate and not completed
PastGate == {s \in Searches :
                searches[s].pc \in {"awaitBuild", "awaitIncr", "scanStart", "yield"}}

\* C36: pendingSearches is never negative and is the number of search calls
\* that have passed the readiness gate and not yet completed, however the
\* others completed; it is 0 when no search is in flight
C36_PendingCountsSearchesInFlight ==
    /\ searchState.pendingSearches >= 0
    /\ searchState.pendingSearches = Cardinality(PastGate)

\* one search has passed the gate and ended in an error, the other is still
\* in flight and is the one search counted
C36_Witness ==
    \E s \in Searches, u \in Searches :
        /\ searches[s].pc = "done" /\ searches[s].outcome = "error"
        /\ u \in PastGate
        /\ searchState.pendingSearches = 1

\* both searches are past the gate and counted
C36_BothInFlight == searchState.pendingSearches = 2 /\ PastGate = Searches

\* a search aborted after the gate has ended, the other is in flight
C36_AbortedAndInFlight ==
    \E s \in Searches, u \in Searches :
        /\ searches[s].pc = "done" /\ searches[s].outcome = "aborted"
        /\ searches[s].abortAt # "call"
        /\ u \in PastGate
        /\ searchState.pendingSearches = 1

\* the incremental update that the freshness gate of search o awaits returns
\* in this step, without an error and without the engine being disposed
GateUpdateCompletes(o) ==
    /\ searches[o].pc = "awaitIncr" /\ searches'[o].pc = "scanStart"
    /\ incr[o].pc # "idle" /\ incr'[o].pc = "idle"
    /\ used'.fails = used.fails
    /\ ~disposed

\* C37: when an incremental update run by the freshness gate has completed
\* without error, whether or not it found a file added, changed or removed,
\* the index is fresh: the gate of a search issued at that moment would
\* start neither a full build nor an incremental update
C37_UpdateResetsAge ==
    [][\A o \in Searches :
          GateUpdateCompletes(o) =>
              /\ ~NeedsFullBuild(now' - lastIndexTime', Len(fileIndex'))
              /\ ~NeedsIncremental(now' - lastIndexTime')]_vars

\* the result of scanning the whole index for `query` in the case mode cs
ScanInMode(idx, query, cs) ==
    sortAndLimitResults(
        ScanBatch(idx, 0, Len(idx), query,
                  IF cs THEN query ELSE ToLowerCase(query), cs, <<>>))

\* C38: the results of a search are those of a scan of the index done
\* entirely in the case mode that was in effect when its scan started, also
\* when the mode is switched while the search is suspended between batches
C38_OneCaseModePerSearch ==
    \A s \in Searches :
        (/\ searches[s].pc = "done" /\ searches[s].outcome = "results"
         /\ ~QueryTooShort(searches[s].query)) =>
            searches[s].result =
                ScanInMode(fileIndex, searches[s].query, searches[s].modeAtStart)

\* C39: initialization ends with the engine ready, also when the cache load,
\* the enumeration or the initial build fails, and the searches that wait
\* for readiness go on; isReady never turns false again; no search scans
\* the index before initialization has finished
C39_EventuallyReadyForGood ==
    /\ <>(init.pc = "done" /\ searchState.isReady)
    /\ \A s \in Searches :
           (searches[s].pc = "awaitReady") ~> (searches[s].pc # "awaitReady")
    /\ [][searchState.isReady => searchState.isReady']_vars
    /\ [](\A s \in Searches :
             searches[s].pc \in {"scanStart", "yield"} =>
                 init.pc = "done" /\ searchState.isReady)

\* the initial build has failed, the engine is ready all the same, and the
\* search that was called has returned results
C39_Witness ==
    /\ init.pc = "done" /\ searchState.isReady
    /\ hist.buildFailed
    /\ \E s \in Searches :
           searches[s].pc = "done" /\ searches[s].outcome = "results"

\* C40: after the user has stopped typing, the webview comes to show, and
\* goes on showing, the outcome of the latest value of the search box: its
\* results or its error, or the hint for a value too short to search
C40_LatestQueryWins ==
    <>[](/\ web.shown.query = web.input
         /\ web.shown.kind \in {"results", "error", "hint"})
====
